---- MODULE Spec2Model ----
(***************************************************************************)
(* Signal <-> Home Assistant bridge.                                       *)
(*                                                                         *)
(* Four state machines are modelled:                                       *)
(*   - the bridge loop: pollMessages of src/src/signal-client.js (the      *)
(*     version with group support, lines 742-827) with the processed-      *)
(*     message set, the authorization check and the command dispatch;      *)
(*   - the chat socket client: the dual-mode SignalClient embedded in      *)
(*     src/setup.sh (lines 73-395): connection, JSON-RPC request/response  *)
(*     correlation, the 30 s timers, the 5 s reconnect and the queue of    *)
(*     pushed messages;                                                    *)
(*   - the command parser: CommandParser of src/src/signal-client.js       *)
(*     (lines 97-526) with its entity cache, over the Home Assistant       *)
(*     client of src/unnamed/part_000 and a backend whose entities change. *)
(*     findEntity and the grammar of execute are also applied directly to  *)
(*     a set of texts and caches;                                          *)
(*   - the event subscription: subscribeToEvents of src/unnamed/part_000   *)
(*     (lines 131-170) and the handler main passes to it                   *)
(*     (src/src/signal-client.js, lines 839-867).                          *)
(*                                                                         *)
(* JavaScript runs every callback to completion, so one action is one      *)
(* callback or one stretch of an async function between two awaits.        *)
(***************************************************************************)
EXTENDS Integers, Sequences, FiniteSets, TLC

-----------------------------------------------------------------------------
(* Bounds of the model *)

\* longest batch one receiveMessages call returns
MaxBatch == 2
\* envelopes delivered by the chat backend over a whole run
MaxDelivered == 3
\* poll cycles that can be in progress at once (setInterval never waits)
MaxCycles == 2
\* capacity of the processed-message set: messageRetention of
\* src/src/signal-client.js:739 (1000 there), scaled down
messageRetention == 1
\* requests the socket client issues over a whole run
MaxRpc == 2
\* inbound messages pushed over a whole run
MaxPush == 2
\* messages of the whole inbound stream two runs of the loop are compared on
MaxStream == 4
\* sockets the event stream of the backend client opens over a whole run
MaxSockets == 3
\* entities in the list the backend returns to a cache refresh
MaxListed == 2

-----------------------------------------------------------------------------
(* Configuration *)

\* config.signalNumber, the bot's own account
signalNumber == "+1000"

\* config.allowedNumbers
allowedNumbers == {"+1555"}

-----------------------------------------------------------------------------
(* State *)

\* the bridge loop
VARIABLES
  processedMessages,  \* the Set of message keys, in insertion order
  cycles,             \* the pollMessages invocations: pc and remaining batch
  delivered,          \* envelopes delivered so far
  retainedIds,        \* history: the identity that inserted each key
  nAdmitted,          \* history: messages admitted since start
  firstAdmitted,      \* history: key of the first admitted message
  stepLog             \* history: what the last step did, in order

bridgeVars == <<processedMessages, cycles, delivered, retainedIds, nAdmitted,
                firstAdmitted, stepLog>>

\* the chat socket client
VARIABLES
  alive,          \* the node process is running
  wsState,        \* this.ws: "none", "connecting", "open" or "closed"
  isConnected,    \* this.isConnected
  reconnectTimers,\* armed 5 s timers of the close handler
  everOpen,       \* history: a connection was open at some time
  rpcId,          \* this.rpcId
  pendingRpc,     \* keys of this.pendingRpc
  timers,         \* ids whose 30 s timer is armed
  settlements,    \* history: per id, the resolve/reject calls made, in order
  removals,       \* history: per id, how often its entry was deleted
  messageQueue,   \* this.messageQueue
  arrived,        \* history: the envelopes of the inbound pushes, in arrival order
  returned,       \* history: what the receiveMessages calls returned, in order
  rpcLog          \* history: what the last step of the client did

rpcVars == <<alive, wsState, isConnected, reconnectTimers, everOpen, rpcId,
             pendingRpc, timers, settlements, removals, messageQueue, arrived,
             returned, rpcLog>>

\* the command parser and the Home Assistant backend
VARIABLES
  haEntities,     \* the entity list the backend holds (GET /api/states)
  entityCache,    \* this.entityCache: the Map entries, in insertion order
  calls,          \* the parser.execute invocations in progress
  stale,          \* history: cacheExpiry has elapsed since the cache was built
  parserLog       \* history: what the last step of the parser did

parserVars == <<haEntities, entityCache, calls, stale, parserLog>>

\* direct calls of the pure methods
VARIABLES
  fnArg,          \* the text a pure method is applied to
  fnResult        \* what the call returned

fnVars == <<fnArg, fnResult>>

\* the subscription to the events of the backend
VARIABLES
  haGroupId,      \* haGroupId of main: "" stands for null (no broadcast group)
  eventLog        \* history: the last frame of the event stream and what it led to

eventVars == <<haGroupId, eventLog>>

\* the connections of the two socket clients
VARIABLES
  disconnected,   \* history: the clients disconnect() was called on
  haStream        \* the event stream of the backend client: its sockets in
                  \* the order they were created (this.ws is the last one),
                  \* the armed 5 s timers, and what the last step did

connVars == <<disconnected, haStream>>

vars == <<bridgeVars, rpcVars, parserVars, fnVars, eventVars, connVars>>

-----------------------------------------------------------------------------
(* Envelopes of the chat backend *)

NoGroupInfo == [present |-> FALSE, groupId |-> ""]

GroupInfo(g) == [present |-> TRUE, groupId |-> g]

\* a data envelope; message = "" stands for an absent (null) or empty text
DataEnvelope(ts, src, gi, text) ==
  [source |-> src, dataMessage |-> TRUE, timestamp |-> ts,
   message |-> text, groupInfo |-> gi]

\* an envelope without dataMessage (receipt, typing indicator)
ReceiptEnvelope(src) ==
  [source |-> src, dataMessage |-> FALSE, timestamp |-> 0,
   message |-> "", groupInfo |-> NoGroupInfo]

\* The envelopes the chat backend delivers.  "+1555" is on the allow-list,
\* "+1999" and "+15551" are not.  The groups "1abc=" and "abc=" are chosen so
\* that sender "+1555" in "1abc=" and sender "+15551" in "abc=" are two
\* different identities.
Envelopes ==
  { DataEnvelope(1, "+1555",  NoGroupInfo,        " Status "),
    DataEnvelope(1, "+1999",  NoGroupInfo,        " Status "),
    DataEnvelope(1, "+1555",  GroupInfo("1abc="), "/groups"),
    DataEnvelope(1, "+15551", GroupInfo("abc="),  "create group den"),
    DataEnvelope(2, "+15551", GroupInfo("abc="),  " Status "),
    DataEnvelope(2, "+1555",  NoGroupInfo,        "  "),
    DataEnvelope(2, signalNumber, NoGroupInfo,    " Status "),
    ReceiptEnvelope("+1555") }

\* the envelopes that reach the bridge loop: receiveMessagesRest and
\* processEnvelope drop the others
InboundEnvelopes ==
  { e \in Envelopes : e.dataMessage /\ e.source # signalNumber }

\* Strings are sequences of characters; the only white space of the texts
\* modelled is the blank.

CharAt(s, i) == SubSeq(s, i, i)

\* String.prototype.indexOf, counted from 1; 0 when p does not occur
IndexOf(s, p) ==
  LET at == { i \in 1 .. Len(s) - Len(p) + 1 : SubSeq(s, i, i + Len(p) - 1) = p }
  IN IF at = {} THEN 0 ELSE CHOOSE i \in at : \A j \in at : i <= j

\* String.prototype.includes
Includes(s, p) == IndexOf(s, p) # 0

RECURSIVE TrimStart(_)
TrimStart(s) ==
  IF s # "" /\ CharAt(s, 1) = " " THEN TrimStart(SubSeq(s, 2, Len(s))) ELSE s

RECURSIVE TrimEnd(_)
TrimEnd(s) ==
  IF s # "" /\ CharAt(s, Len(s)) = " " THEN TrimEnd(SubSeq(s, 1, Len(s) - 1)) ELSE s

\* String.prototype.trim
Trim(s) == TrimEnd(TrimStart(s))

UpperCaseLetters ==
  { "A", "B", "C", "D", "E", "F", "G", "H", "I", "J", "K", "L", "M",
    "N", "O", "P", "Q", "R", "S", "T", "U", "V", "W", "X", "Y", "Z" }

LowerCaseOf(c) ==
  CASE c = "A" -> "a" [] c = "B" -> "b" [] c = "C" -> "c" [] c = "D" -> "d"
    [] c = "E" -> "e" [] c = "F" -> "f" [] c = "G" -> "g" [] c = "H" -> "h"
    [] c = "I" -> "i" [] c = "J" -> "j" [] c = "K" -> "k" [] c = "L" -> "l"
    [] c = "M" -> "m" [] c = "N" -> "n" [] c = "O" -> "o" [] c = "P" -> "p"
    [] c = "Q" -> "q" [] c = "R" -> "r" [] c = "S" -> "s" [] c = "T" -> "t"
    [] c = "U" -> "u" [] c = "V" -> "v" [] c = "W" -> "w" [] c = "X" -> "x"
    [] c = "Y" -> "y" [] c = "Z" -> "z"

LowerChar(c) == IF c \in UpperCaseLetters THEN LowerCaseOf(c) ELSE c

RECURSIVE LowerFrom(_, _)
LowerFrom(s, i) ==
  IF i > Len(s) THEN "" ELSE LowerChar(CharAt(s, i)) \o LowerFrom(s, i + 1)

\* String.prototype.toLowerCase
ToLowerCase(s) == LowerFrom(s, 1)

\* String.prototype.replace with a string pattern: the first occurrence
Replace(s, p, r) ==
  LET i == IndexOf(s, p)
  IN IF i = 0 THEN s
     ELSE SubSeq(s, 1, i - 1) \o r \o SubSeq(s, i + Len(p), Len(s))

\* String.prototype.replace with a global pattern of one character
RECURSIVE ReplaceAll(_, _, _)
ReplaceAll(s, c, r) ==
  IF s = "" THEN ""
  ELSE (IF CharAt(s, 1) = c THEN r ELSE CharAt(s, 1)) \o ReplaceAll(SubSeq(s, 2, Len(s)), c, r)

\* String.prototype.startsWith
StartsWith(s, p) == Len(s) >= Len(p) /\ SubSeq(s, 1, Len(p)) = p

-----------------------------------------------------------------------------
(* Message normalisation of the transport *)

\* In a normalised message groupId null is written "" (the callers only
\* test its truthiness) and groupName, which is only logged, is left out.

\* receiveMessagesRest without the test for the bot's own messages
RECURSIVE receiveMessagesRest_KeepsOwn(_)
receiveMessagesRest_KeepsOwn(envs) ==
  IF envs = <<>> THEN <<>>
  ELSE LET envelope == Head(envs)
           isGroup  == envelope.groupInfo.present
           rest     == receiveMessagesRest_KeepsOwn(Tail(envs))
       IN IF envelope.dataMessage
          THEN << [source    |-> envelope.source,
                   timestamp |-> envelope.timestamp,
                   message   |-> IF envelope.message # ""
                                 THEN Trim(envelope.message) ELSE "",
                   isGroup   |-> isGroup,
                   groupId   |-> IF isGroup THEN envelope.groupInfo.groupId ELSE "",
                   replyTo   |-> IF isGroup
                                 THEN [type |-> "group", id |-> envelope.groupInfo.groupId]
                                 ELSE [type |-> "individual", id |-> envelope.source]] >>
               \o rest
          ELSE rest

\* receiveMessagesRest: the messages of a batch of envelopes, in order
RECURSIVE receiveMessagesRest(_)
receiveMessagesRest(envs) ==
  IF envs = <<>> THEN <<>>
  ELSE LET envelope == Head(envs)
           isGroup  == envelope.groupInfo.present
           rest     == receiveMessagesRest(Tail(envs))
       IN IF envelope.dataMessage /\ envelope.source # signalNumber
          THEN << [source    |-> envelope.source,
                   timestamp |-> envelope.timestamp,
                   message   |-> IF envelope.message # ""
                                 THEN Trim(envelope.message) ELSE "",
                   isGroup   |-> isGroup,
                   groupId   |-> IF isGroup THEN envelope.groupInfo.groupId ELSE "",
                   replyTo   |-> IF isGroup
                                 THEN [type |-> "group", id |-> envelope.groupInfo.groupId]
                                 ELSE [type |-> "individual", id |-> envelope.source]] >>
               \o rest
          ELSE rest

\* The answer to GET /v1/receive/<number>.  status 0 stands for a request
\* that got no response (refused, timed out); body is "none", "object" (data
\* that is not an array) or "array", and envelopes is the array.
HttpResponse(status, body, envelopes) ==
  [status |-> status, body |-> body, envelopes |-> envelopes]

\* the status the catch of receiveMessagesRest takes for "no messages"
NoMessagesStatus == 400

\* axios resolves for a 2xx status and rejects otherwise, with
\* err.response set when a response came
AxiosResolves(response) == response.status >= 200 /\ response.status < 300

\* what a call of receiveMessagesRest came to
RestOutcome(threw, messages) == [threw |-> threw, messages |-> messages]

\* receiveMessagesRest without the catch for status 400
receiveMessagesRestCall_Rethrows(response) ==
  IF AxiosResolves(response)
  THEN IF response.body # "array" THEN RestOutcome(FALSE, <<>>)
       ELSE RestOutcome(FALSE, receiveMessagesRest(response.envelopes))
  ELSE RestOutcome(TRUE, <<>>)

\* receiveMessagesRest on the answer of the GET
receiveMessagesRestCall(response) ==
  IF AxiosResolves(response)
  THEN IF response.body # "array" THEN RestOutcome(FALSE, <<>>)
       ELSE RestOutcome(FALSE, receiveMessagesRest(response.envelopes))
  ELSE IF response.status # 0 /\ response.status = NoMessagesStatus
       THEN RestOutcome(FALSE, <<>>)
       ELSE RestOutcome(TRUE, <<>>)

\* processEnvelope without the test for the bot's own messages
processEnvelope_KeepsOwn(queue, envelope) ==
  IF ~envelope.dataMessage THEN queue
  ELSE LET isGroup == envelope.groupInfo.present
           groupId == IF isGroup THEN envelope.groupInfo.groupId ELSE ""
       IN Append(queue,
                 [source    |-> envelope.source,
                  timestamp |-> envelope.timestamp,
                  message   |-> IF envelope.message # ""
                                THEN Trim(envelope.message) ELSE "",
                  isGroup   |-> isGroup,
                  groupId   |-> groupId,
                  replyTo   |-> IF isGroup
                                THEN [type |-> "group", id |-> groupId]
                                ELSE [type |-> "individual", id |-> envelope.source]])

\* processEnvelope: the message queue after one pushed envelope
processEnvelope(queue, envelope) ==
  IF ~envelope.dataMessage THEN queue
  ELSE IF envelope.source = signalNumber THEN queue
  ELSE LET isGroup == envelope.groupInfo.present
           groupId == IF isGroup THEN envelope.groupInfo.groupId ELSE ""
       IN Append(queue,
                 [source    |-> envelope.source,
                  timestamp |-> envelope.timestamp,
                  message   |-> IF envelope.message # ""
                                THEN Trim(envelope.message) ELSE "",
                  isGroup   |-> isGroup,
                  groupId   |-> groupId,
                  replyTo   |-> IF isGroup
                                THEN [type |-> "group", id |-> groupId]
                                ELSE [type |-> "individual", id |-> envelope.source]])

-----------------------------------------------------------------------------
(* The bridge loop *)

Cycles == 1 .. MaxCycles

\* elements of a sequence
Range(s) == { s[i] : i \in DOMAIN s }

\* identity of a message: (timestamp, sender, group id)
Identity(msg) == <<msg.timestamp, msg.source, msg.groupId>>

\* msgId = msg.timestamp + msg.source + (msg.groupId || '')
\* (number + string is string concatenation in JavaScript)
MsgId(msg) == ToString(msg.timestamp) \o msg.source \o msg.groupId

\* where signal.sendMessage(recipient, message, groupId) delivers to:
\* a truthy groupId wins over the recipient
SendTarget(recipient, groupId) ==
  IF groupId # "" THEN [type |-> "group", id |-> groupId]
                  ELSE [type |-> "individual", id |-> recipient]

NoTarget == [type |-> "none", id |-> ""]

Event(type, msg, ok, seen, target) ==
  [type |-> type, msg |-> msg, ok |-> ok, seen |-> seen, target |-> target]

\* the allow-list applied to group messages too
Rejected_IgnoresGroup(msg) == msg.source \notin allowedNumbers

\* no allow-list check at all
Rejected_Nobody(msg) == FALSE

\* !msg.isGroup && !config.allowedNumbers.includes(msg.source)
Rejected(msg) == ~msg.isGroup /\ msg.source \notin allowedNumbers

\* cmd === '/groups' || cmd === 'list groups'
IsGroupsCommand(cmd) == cmd = "/groups" \/ cmd = "list groups"

\* cmd === '/creategroup' || cmd.startsWith('create group')
IsCreateGroupCommand(cmd) == cmd = "/creategroup" \/ StartsWith(cmd, "create group")

\* The body of the for loop of pollMessages, run from the head of batch up
\* to the next await (or the end of the batch).  st carries the
\* processed-message set and the history; the result adds the pc reached
\* and the batch that is left (its head is the message being handled).
RECURSIVE RunLoop(_, _)
RunLoop(st, batch) ==
  IF batch = <<>> THEN [st |-> st, pc |-> "idle", batch |-> <<>>]
  ELSE
    LET msg   == Head(batch)
        msgId == MsgId(msg)
        seen  == Identity(msg) \in Range(st.ids)
    IN
    IF msgId \in Range(st.pm)
    THEN RunLoop([st EXCEPT !.log = Append(@, Event("dedup", msg, FALSE, seen, NoTarget))],
                 Tail(batch))
    ELSE
      LET evict == Len(st.pm) > messageRetention
          pm1   == IF evict THEN Tail(st.pm) ELSE st.pm
          ids1  == IF evict THEN Tail(st.ids) ELSE st.ids
          st1   == [st EXCEPT !.pm = Append(pm1, msgId),
                              !.ids = Append(ids1, Identity(msg)),
                              !.n = @ + 1,
                              !.first = IF st.n = 0 THEN msgId ELSE @,
                              !.log = Append(@, Event("dedup", msg, TRUE, seen, NoTarget))]
      IN
      IF Rejected(msg)
      THEN RunLoop([st1 EXCEPT !.log = Append(@, Event("auth", msg, FALSE, seen, NoTarget))],
                   Tail(batch))
      ELSE
        LET st2 == [st1 EXCEPT !.log = Append(@, Event("auth", msg, TRUE, seen, NoTarget))]
            cmd == ToLowerCase(Trim(msg.message))
            st3 == [st2 EXCEPT !.log = Append(@, Event("dispatch", msg, TRUE, seen, NoTarget))]
        IN
        IF msg.message = "" \/ Trim(msg.message) = ""
        THEN RunLoop(st2, Tail(batch))
        ELSE IF IsGroupsCommand(cmd)
        THEN [st |-> st3, pc |-> "listGroups", batch |-> batch]
        ELSE IF IsCreateGroupCommand(cmd)
        THEN [st |-> st3, pc |-> "createGroup", batch |-> batch]
        ELSE [st |-> st3, pc |-> "execute", batch |-> batch]

LoopState == [pm |-> processedMessages, ids |-> retainedIds, n |-> nAdmitted,
              first |-> firstAdmitted, log |-> <<>>]

\* the loop over batch with the insert into the processed-message set
\* left for later
Continue_KeepsSet(c, batch) ==
  LET r == RunLoop(LoopState, batch)
  IN /\ nAdmitted' = r.st.n
     /\ firstAdmitted' = r.st.first
     /\ stepLog' = r.st.log
     /\ cycles' = [cycles EXCEPT ![c] = [pc |-> r.pc, batch |-> r.batch]]
     /\ UNCHANGED <<processedMessages, retainedIds>>

\* cycle c goes on with the loop over batch
Continue(c, batch) ==
  LET r == RunLoop(LoopState, batch)
  IN /\ processedMessages' = r.st.pm
     /\ retainedIds' = r.st.ids
     /\ nAdmitted' = r.st.n
     /\ firstAdmitted' = r.st.first
     /\ stepLog' = r.st.log
     /\ cycles' = [cycles EXCEPT ![c] = [pc |-> r.pc, batch |-> r.batch]]

\* cycle c stays on its current message and waits for the next call
Await(c, pc, events) ==
  /\ cycles' = [cycles EXCEPT ![c].pc = pc]
  /\ stepLog' = events
  /\ UNCHANGED <<processedMessages, retainedIds, nAdmitted, firstAdmitted>>

\* the outer catch of pollMessages: the cycle ends, the rest of the batch
\* is dropped
Abort(c) ==
  /\ cycles' = [cycles EXCEPT ![c] = [pc |-> "idle", batch |-> <<>>]]
  /\ stepLog' = <<>>
  /\ UNCHANGED <<processedMessages, retainedIds, nAdmitted, firstAdmitted>>

SendEvent(msg, recipient, groupId) ==
  Event("send", msg, TRUE, FALSE, SendTarget(recipient, groupId))

\* the reply of the parse-and-execute branch, also used in its catch
ReplyEvent(msg) ==
  IF msg.isGroup /\ msg.groupId # ""
  THEN SendEvent(msg, "", msg.groupId)
  ELSE SendEvent(msg, msg.source, "")

\* setInterval fires: a new pollMessages starts and awaits receiveMessages
Tick(c) ==
  /\ cycles[c].pc = "idle"
  /\ cycles' = [cycles EXCEPT ![c].pc = "receiving"]
  /\ stepLog' = <<>>
  /\ UNCHANGED <<processedMessages, delivered, retainedIds, nAdmitted, firstAdmitted>>
  /\ UNCHANGED <<rpcVars, parserVars, fnVars, eventVars, connVars>>

BatchesOf(S) == UNION { [1 .. n -> S] : n \in 0 .. MaxBatch }

\* receiveMessages returns the messages of the delivered envelopes
ReceiveReturn(c) ==
  /\ cycles[c].pc = "receiving"
  /\ \E envs \in BatchesOf(InboundEnvelopes) :
       /\ delivered + Len(envs) <= MaxDelivered
       /\ delivered' = delivered + Len(envs)
       /\ Continue(c, receiveMessagesRest(envs))
  /\ UNCHANGED <<rpcVars, parserVars, fnVars, eventVars, connVars>>

\* receiveMessages throws (timeout, network error)
ReceiveThrows(c) ==
  /\ cycles[c].pc = "receiving"
  /\ Abort(c)
  /\ UNCHANGED <<delivered, rpcVars, parserVars, fnVars, eventVars, connVars>>

\* signal.listGroups() returns (it never throws); the listing is sent
ListGroupsReturn(c) ==
  /\ cycles[c].pc = "listGroups"
  /\ LET msg == Head(cycles[c].batch)
     IN Await(c, "sendFinal",
              << Event("listGroups", msg, TRUE, FALSE, NoTarget),
                 SendEvent(msg, IF msg.replyTo.id = "group" THEN "" ELSE msg.source,
                           msg.groupId) >>)
  /\ UNCHANGED <<delivered, rpcVars, parserVars, fnVars, eventVars, connVars>>

\* signal.createGroup() returns; the confirmation is sent to the sender
CreateGroupReturn(c) ==
  /\ cycles[c].pc = "createGroup"
  /\ LET msg == Head(cycles[c].batch)
     IN Await(c, "sendTryCreate",
              << Event("createGroup", msg, TRUE, FALSE, NoTarget),
                 SendEvent(msg, msg.source, "") >>)
  /\ UNCHANGED <<delivered, rpcVars, parserVars, fnVars, eventVars, connVars>>

\* signal.createGroup() throws; the failure is sent to the sender
CreateGroupThrows(c) ==
  /\ cycles[c].pc = "createGroup"
  /\ LET msg == Head(cycles[c].batch)
     IN Await(c, "sendFinal",
              << Event("createGroup", msg, FALSE, FALSE, NoTarget),
                 SendEvent(msg, msg.source, "") >>)
  /\ UNCHANGED <<delivered, rpcVars, parserVars, fnVars, eventVars, connVars>>

\* the reply of parser.execute() is not awaited: the loop goes on
ExecuteReturn_NoAwait(c) ==
  /\ cycles[c].pc = "execute"
  /\ Continue(c, Tail(cycles[c].batch))
  /\ UNCHANGED <<delivered, rpcVars, parserVars, fnVars, eventVars, connVars>>

\* parser.execute() returns its reply after its backend calls; the reply
\* is sent to the group or to the sender
ExecuteReturn(c) ==
  /\ cycles[c].pc = "execute"
  /\ LET msg == Head(cycles[c].batch)
     IN Await(c, "sendTryExecute",
              << Event("ha", msg, TRUE, FALSE, NoTarget), ReplyEvent(msg) >>)
  /\ UNCHANGED <<delivered, rpcVars, parserVars, fnVars, eventVars, connVars>>

\* an awaited signal.sendMessage() returns: next message of the batch
SendReturn(c) ==
  /\ cycles[c].pc \in {"sendFinal", "sendTryCreate", "sendTryExecute"}
  /\ Continue(c, Tail(cycles[c].batch))
  /\ UNCHANGED <<delivered, rpcVars, parserVars, fnVars, eventVars, connVars>>

\* an awaited signal.sendMessage() throws
SendThrows(c) ==
  /\ cycles[c].pc \in {"sendFinal", "sendTryCreate", "sendTryExecute"}
  /\ LET msg == Head(cycles[c].batch)
     IN CASE cycles[c].pc = "sendTryCreate" ->
               Await(c, "sendFinal", << SendEvent(msg, msg.source, "") >>)
          [] cycles[c].pc = "sendTryExecute" ->
               Await(c, "sendFinal", << ReplyEvent(msg) >>)
          [] OTHER -> Abort(c)
  /\ UNCHANGED <<delivered, rpcVars, parserVars, fnVars, eventVars, connVars>>

BridgeInit ==
  /\ processedMessages = <<>>
  /\ cycles = [c \in Cycles |-> [pc |-> "idle", batch |-> <<>>]]
  /\ delivered = 0
  /\ retainedIds = <<>>
  /\ nAdmitted = 0
  /\ firstAdmitted = ""
  /\ stepLog = <<>>

\* the bridge loop over an abstract transport
Next ==
  \E c \in Cycles :
    \/ Tick(c)
    \/ ReceiveReturn(c)
    \/ ReceiveThrows(c)
    \/ ListGroupsReturn(c)
    \/ CreateGroupReturn(c)
    \/ CreateGroupThrows(c)
    \/ ExecuteReturn(c)
    \/ SendReturn(c)
    \/ SendThrows(c)

-----------------------------------------------------------------------------
(* The chat socket client (json-rpc mode) *)

RpcIds == 1 .. MaxRpc

\* the envelopes pushed over the socket
PushEnvelopes ==
  { e \in Envelopes : e.timestamp = 2 \/ ~e.dataMessage }

NoEnvelope == ReceiptEnvelope("")

\* the frames the server sends: responses (with result or error),
\* 'receive' notifications with and without params, other notifications,
\* and data that is not JSON
Response(id, isError) ==
  [json |-> TRUE, id |-> id, error |-> isError, method |-> "",
   hasParams |-> FALSE, params |-> NoEnvelope]

Notification(method, hasParams, envelope) ==
  [json |-> TRUE, id |-> 0, error |-> FALSE, method |-> method,
   hasParams |-> hasParams, params |-> envelope]

Garbage ==
  [json |-> FALSE, id |-> 0, error |-> FALSE, method |-> "",
   hasParams |-> FALSE, params |-> NoEnvelope]

Frames ==
  { Response(id, e) : id \in RpcIds, e \in BOOLEAN }
    \cup { Notification("receive", TRUE, e) : e \in PushEnvelopes }
    \cup { Notification("receive", FALSE, NoEnvelope),
           Notification("other", TRUE, NoEnvelope),
           Garbage }

\* what a frame is to handleJsonRpcMessage
FrameKind(frame) ==
  IF ~frame.json THEN "garbage"
  ELSE IF frame.method = "" /\ frame.id # 0 THEN "response"
  ELSE "notification"

RpcEvent(type, id, kind) == [type |-> type, id |-> id, kind |-> kind]

\* a frame that is a 'receive' push of an inbound data message
IsInboundPush(frame) ==
  /\ frame.json /\ frame.id = 0 /\ frame.method = "receive" /\ frame.hasParams
  /\ frame.params.dataMessage /\ frame.params.source # signalNumber

\* this.ws = new WebSocket(wsUrl)
connectJsonRpc ==
  /\ wsState' = "connecting"
  /\ UNCHANGED <<isConnected, everOpen>>

\* init() of json-rpc mode
InitClient ==
  /\ alive /\ wsState = "none"
  /\ connectJsonRpc
  /\ rpcLog' = RpcEvent("connect", 0, "")
  /\ UNCHANGED <<alive, reconnectTimers, rpcId, pendingRpc, timers, settlements,
                 removals, messageQueue, arrived, returned>>
  /\ UNCHANGED <<bridgeVars, parserVars, fnVars, eventVars, connVars>>

\* the 'open' handler
WsOpen ==
  /\ alive /\ wsState = "connecting"
  /\ wsState' = "open"
  /\ isConnected' = TRUE
  /\ everOpen' = TRUE
  /\ rpcLog' = RpcEvent("open", 0, "")
  /\ UNCHANGED <<alive, reconnectTimers, rpcId, pendingRpc, timers, settlements,
                 removals, messageQueue, arrived, returned>>
  /\ UNCHANGED <<bridgeVars, parserVars, fnVars, eventVars, connVars>>

\* the 'close' handler
OnClose ==
  /\ wsState' = "closed"
  /\ isConnected' = FALSE
  /\ reconnectTimers' = reconnectTimers + 1
  /\ UNCHANGED <<pendingRpc, settlements, removals>>

\* the open connection closes
WsClose ==
  /\ alive /\ wsState = "open"
  /\ OnClose
  /\ rpcLog' = RpcEvent("close", 0, "")
  /\ UNCHANGED <<alive, everOpen, rpcId, timers, messageQueue, arrived,
                 returned>>
  /\ UNCHANGED <<bridgeVars, parserVars, fnVars, eventVars, connVars>>

\* A connection attempt fails: ws emits 'error' and then 'close'.  The
\* 'error' handler rejects the promise of connectJsonRpc.  For the attempt
\* of init() the rejection reaches main().catch, which exits.  For an
\* attempt made by the reconnect timer nobody holds the promise: the
\* rejection is unhandled, which ends a node 18 process unless it was
\* started with --unhandled-rejections=warn or =none.
WsConnectFailed ==
  /\ alive /\ wsState = "connecting"
  /\ OnClose
  /\ \E unhandledRejectionExits \in BOOLEAN :
       alive' = IF everOpen THEN ~unhandledRejectionExits ELSE FALSE
  /\ rpcLog' = RpcEvent("connectFailed", 0, "")
  /\ UNCHANGED <<everOpen, rpcId, timers, messageQueue, arrived, returned>>
  /\ UNCHANGED <<bridgeVars, parserVars, fnVars, eventVars, connVars>>

\* the 5 s timer of the close handler fires
ReconnectTimerFires ==
  /\ alive /\ reconnectTimers > 0
  /\ reconnectTimers' = reconnectTimers - 1
  /\ connectJsonRpc
  /\ rpcLog' = RpcEvent("reconnect", 0, "")
  /\ UNCHANGED <<alive, rpcId, pendingRpc, timers, settlements, removals,
                 messageQueue, arrived, returned>>
  /\ UNCHANGED <<bridgeVars, parserVars, fnVars, eventVars, connVars>>

\* sendJsonRpc while connected: the entry and its 30 s timer are created
\* and the request is written to the socket
SendJsonRpc ==
  /\ alive /\ isConnected
  /\ rpcId < MaxRpc
  /\ LET id == rpcId + 1
     IN /\ rpcId' = id
        /\ pendingRpc' = pendingRpc \cup {id}
        /\ timers' = timers \cup {id}
        /\ rpcLog' = RpcEvent("send", id, "")
  /\ UNCHANGED <<alive, wsState, isConnected, reconnectTimers, everOpen,
                 settlements, removals, messageQueue, arrived, returned>>
  /\ UNCHANGED <<bridgeVars, parserVars, fnVars, eventVars, connVars>>

\* sendJsonRpc takes its id before it tests the flag
SendJsonRpcNotConnected_ConsumesId ==
  /\ alive /\ ~isConnected
  /\ rpcId < MaxRpc
  /\ rpcId' = rpcId + 1
  /\ rpcLog' = RpcEvent("notConnected", 0, "")
  /\ UNCHANGED <<alive, wsState, isConnected, reconnectTimers, everOpen,
                 pendingRpc, timers, settlements, removals, messageQueue, arrived, returned>>
  /\ UNCHANGED <<bridgeVars, parserVars, fnVars, eventVars, connVars>>

\* sendJsonRpc while not connected throws
SendJsonRpcNotConnected ==
  /\ alive /\ ~isConnected
  /\ rpcLog' = RpcEvent("notConnected", 0, "")
  /\ UNCHANGED <<alive, wsState, isConnected, reconnectTimers, everOpen, rpcId,
                 pendingRpc, timers, settlements, removals, messageQueue, arrived, returned>>
  /\ UNCHANGED <<bridgeVars, parserVars, fnVars, eventVars, connVars>>

\* the timer rejects but leaves the entry in pendingRpc
OnTimeout_KeepsEntry(id) ==
  IF id \in pendingRpc
  THEN /\ settlements' = [settlements EXCEPT ![id] = Append(@, "timeout")]
       /\ UNCHANGED <<pendingRpc, removals>>
  ELSE UNCHANGED <<pendingRpc, removals, settlements>>

\* the body of the 30 s timer of request id
OnTimeout(id) ==
  IF id \in pendingRpc
  THEN /\ pendingRpc' = pendingRpc \ {id}
       /\ removals' = [removals EXCEPT ![id] = @ + 1]
       /\ settlements' = [settlements EXCEPT ![id] = Append(@, "timeout")]
  ELSE UNCHANGED <<pendingRpc, removals, settlements>>

\* the 30 s timer of request id fires
TimeoutFires(id) ==
  /\ alive /\ id \in timers
  /\ timers' = timers \ {id}
  /\ OnTimeout(id)
  /\ rpcLog' = RpcEvent("timer", id, "")
  /\ UNCHANGED <<alive, wsState, isConnected, reconnectTimers, everOpen, rpcId,
                 messageQueue, arrived, returned>>
  /\ UNCHANGED <<bridgeVars, parserVars, fnVars, eventVars, connVars>>

\* the response settles the caller but the entry is not deleted
handleJsonRpcMessage_NoDelete(frame) ==
  IF ~frame.json
  THEN UNCHANGED <<pendingRpc, removals, settlements, messageQueue>>
  ELSE IF frame.id # 0 /\ frame.id \in pendingRpc
  THEN /\ settlements' = [settlements EXCEPT ![frame.id] =
                            Append(@, IF frame.error THEN "remote error" ELSE "result")]
       /\ UNCHANGED <<pendingRpc, removals, messageQueue>>
  ELSE IF frame.method = "receive" /\ frame.hasParams
  THEN /\ messageQueue' = processEnvelope(messageQueue, frame.params)
       /\ UNCHANGED <<pendingRpc, removals, settlements>>
  ELSE UNCHANGED <<pendingRpc, removals, settlements, messageQueue>>

\* a response with an error field resolves the caller like any other
handleJsonRpcMessage_ErrorResolves(frame) ==
  IF ~frame.json
  THEN UNCHANGED <<pendingRpc, removals, settlements, messageQueue>>
  ELSE IF frame.id # 0 /\ frame.id \in pendingRpc
  THEN /\ pendingRpc' = pendingRpc \ {frame.id}
       /\ removals' = [removals EXCEPT ![frame.id] = @ + 1]
       /\ settlements' = [settlements EXCEPT ![frame.id] = Append(@, "result")]
       /\ UNCHANGED messageQueue
  ELSE IF frame.method = "receive" /\ frame.hasParams
  THEN /\ messageQueue' = processEnvelope(messageQueue, frame.params)
       /\ UNCHANGED <<pendingRpc, removals, settlements>>
  ELSE UNCHANGED <<pendingRpc, removals, settlements, messageQueue>>

\* handleJsonRpcMessage
handleJsonRpcMessage(frame) ==
  IF ~frame.json
  THEN UNCHANGED <<pendingRpc, removals, settlements, messageQueue>>
  ELSE IF frame.id # 0 /\ frame.id \in pendingRpc
  THEN /\ pendingRpc' = pendingRpc \ {frame.id}
       /\ removals' = [removals EXCEPT ![frame.id] = @ + 1]
       /\ settlements' = [settlements EXCEPT ![frame.id] =
                            Append(@, IF frame.error THEN "remote error" ELSE "result")]
       /\ UNCHANGED messageQueue
  ELSE IF frame.method = "receive" /\ frame.hasParams
  THEN /\ messageQueue' = processEnvelope(messageQueue, frame.params)
       /\ UNCHANGED <<pendingRpc, removals, settlements>>
  ELSE UNCHANGED <<pendingRpc, removals, settlements, messageQueue>>

\* the 'message' handler: the server sends a frame over the open socket
\* (a response only to a request that was sent)
WsMessage(frame) ==
  /\ alive /\ wsState = "open"
  /\ frame.id <= rpcId
  /\ IsInboundPush(frame) => Len(arrived) < MaxPush
  /\ handleJsonRpcMessage(frame)
  /\ arrived' = IF IsInboundPush(frame) THEN Append(arrived, frame.params)
                                           ELSE arrived
  /\ rpcLog' = RpcEvent("message", frame.id, FrameKind(frame))
  /\ UNCHANGED <<alive, wsState, isConnected, reconnectTimers, everOpen, rpcId,
                 timers, returned>>
  /\ UNCHANGED <<bridgeVars, parserVars, fnVars, eventVars, connVars>>

\* the queue is returned but not cleared
ReceiveMessages_NoClear ==
  /\ alive
  /\ returned' = returned \o messageQueue
  /\ rpcLog' = RpcEvent("receive", 0, "")
  /\ UNCHANGED <<alive, wsState, isConnected, reconnectTimers, everOpen, rpcId,
                 pendingRpc, timers, settlements, removals, arrived,
                 messageQueue>>
  /\ UNCHANGED <<bridgeVars, parserVars, fnVars, eventVars, connVars>>

\* receiveMessages of json-rpc mode: return the queue and clear it
ReceiveMessages ==
  /\ alive
  /\ returned' = returned \o messageQueue
  /\ messageQueue' = <<>>
  /\ rpcLog' = RpcEvent("receive", 0, "")
  /\ UNCHANGED <<alive, wsState, isConnected, reconnectTimers, everOpen, rpcId,
                 pendingRpc, timers, settlements, removals, arrived>>
  /\ UNCHANGED <<bridgeVars, parserVars, fnVars, eventVars, connVars>>

RpcInit ==
  /\ alive = TRUE
  /\ wsState = "none"
  /\ isConnected = FALSE
  /\ reconnectTimers = 0
  /\ everOpen = FALSE
  /\ rpcId = 0
  /\ pendingRpc = {}
  /\ timers = {}
  /\ settlements = [id \in RpcIds |-> <<>>]
  /\ removals = [id \in RpcIds |-> 0]
  /\ messageQueue = <<>>
  /\ arrived = <<>>
  /\ returned = <<>>
  /\ rpcLog = RpcEvent("new", 0, "")

RpcNext ==
  \/ InitClient
  \/ WsOpen
  \/ WsClose
  \/ WsConnectFailed
  \/ ReconnectTimerFires
  \/ SendJsonRpc
  \/ SendJsonRpcNotConnected
  \/ \E id \in RpcIds : TimeoutFires(id)
  \/ \E frame \in Frames : WsMessage(frame)
  \/ ReceiveMessages

-----------------------------------------------------------------------------
(* The bridge loop over the chat socket client (SIGNAL_MODE=json-rpc) *)

\* In json-rpc mode receiveMessages, listGroups and createGroup settle
\* without waiting for the network, so the loop runs on to the next send in
\* the same step.  A send is a 'send' request of sendJsonRpc; the loop goes
\* on, in a step of its own, once the request has been settled by its
\* response or by its timer.

\* what a group operation of the client came to
GroupResult(threw, error, groups) == [threw |-> threw, error |-> error, groups |-> groups]

\* listGroups in json-rpc mode: a warning is logged and [] returned
listGroupsJsonRpc == GroupResult(FALSE, "", <<>>)

\* createGroup sends the request as if the mode had the method
createGroupJsonRpc_Succeeds == GroupResult(FALSE, "", <<>>)

\* createGroup in json-rpc mode: a warning is logged and an error thrown
createGroupJsonRpc == GroupResult(TRUE, "Group creation requires REST mode", <<>>)

\* a group operation called for msg and what it came to
GroupEvent(type, msg, result) ==
  [type |-> type, msg |-> msg, ok |-> ~result.threw, seen |-> FALSE,
   target |-> NoTarget, error |-> result.error, groups |-> result.groups]

\* the pushed messages of this mode: the two group-management commands and
\* a command for the parser
SocketEnvelopes ==
  { DataEnvelope(1, "+1555",  GroupInfo("1abc="), "/groups"),
    DataEnvelope(1, "+15551", GroupInfo("abc="),  "create group den"),
    DataEnvelope(1, "+1555",  NoGroupInfo,        " Status ") }

\* Cycle c calls signal.sendMessage for the head of batch, to wait at pc.
\* Connected, sendJsonRpc registers the request and writes it to the
\* socket.  Not connected, it throws; a send of a catch block throws as
\* well, so the failure reaches the outer catch of pollMessages.
SocketSend(c, pc, batch, events) ==
  /\ stepLog' = events
  /\ IF isConnected
     THEN /\ rpcId < MaxRpc
          /\ cycles' = [cycles EXCEPT ![c] = [pc |-> pc, batch |-> batch]]
          /\ rpcId' = rpcId + 1
          /\ pendingRpc' = pendingRpc \cup {rpcId + 1}
          /\ timers' = timers \cup {rpcId + 1}
          /\ rpcLog' = RpcEvent("send", rpcId + 1, "send")
     ELSE /\ cycles' = [cycles EXCEPT ![c] = [pc |-> "idle", batch |-> <<>>]]
          /\ rpcLog' = RpcEvent("notConnected", 0, "send")
          /\ UNCHANGED <<rpcId, pendingRpc, timers>>

\* cycle c goes on with the loop over batch, up to its next wait
SocketRun(c, batch) ==
  LET r   == RunLoop(LoopState, batch)
      msg == Head(r.batch)
  IN /\ processedMessages' = r.st.pm
     /\ retainedIds' = r.st.ids
     /\ nAdmitted' = r.st.n
     /\ firstAdmitted' = r.st.first
     /\ CASE r.pc = "listGroups" ->
               SocketSend(c, "sendFinal", r.batch,
                 r.st.log \o
                 << GroupEvent("listGroups", msg, listGroupsJsonRpc),
                    SendEvent(msg, IF msg.replyTo.id = "group" THEN "" ELSE msg.source,
                              msg.groupId) >>)
          [] r.pc = "createGroup" ->
               SocketSend(c, IF createGroupJsonRpc.threw THEN "sendFinal" ELSE "sendTryCreate",
                 r.batch,
                 r.st.log \o
                 << GroupEvent("createGroup", msg, createGroupJsonRpc),
                    SendEvent(msg, msg.source, "") >>)
          [] OTHER ->
               /\ cycles' = [cycles EXCEPT ![c] = [pc |-> r.pc, batch |-> r.batch]]
               /\ stepLog' = r.st.log
               /\ rpcLog' = RpcEvent("poll", 0, "")
               /\ UNCHANGED <<rpcId, pendingRpc, timers>>

\* the tick of setInterval once init() has connected: receiveMessages
\* hands out the queue and the loop starts
SocketPoll(c) ==
  /\ alive /\ everOpen
  /\ cycles[c].pc = "idle"
  /\ messageQueue' = <<>>
  /\ returned' = returned \o messageQueue
  /\ SocketRun(c, messageQueue)
  /\ UNCHANGED <<delivered, alive, wsState, isConnected, reconnectTimers, everOpen,
                 settlements, removals, arrived>>
  /\ UNCHANGED <<parserVars, fnVars, eventVars, connVars>>

\* parser.execute() returns its reply, which is sent
SocketExecuteReturn(c) ==
  /\ alive
  /\ cycles[c].pc = "execute"
  /\ LET msg == Head(cycles[c].batch)
     IN SocketSend(c, "sendTryExecute", cycles[c].batch,
                   << Event("ha", msg, TRUE, FALSE, NoTarget), ReplyEvent(msg) >>)
  /\ UNCHANGED <<processedMessages, retainedIds, nAdmitted, firstAdmitted, delivered>>
  /\ UNCHANGED <<alive, wsState, isConnected, reconnectTimers, everOpen,
                 settlements, removals, messageQueue, arrived, returned>>
  /\ UNCHANGED <<parserVars, fnVars, eventVars, connVars>>

\* the 'send' request cycle c waits for has been settled: resolved, the
\* loop goes on with the next message; rejected, the catch around it sends
\* the failure, or the outer catch ends the cycle
SocketSendSettled(c) ==
  /\ alive
  /\ cycles[c].pc \in {"sendFinal", "sendTryCreate", "sendTryExecute"}
  /\ settlements[rpcId] # <<>>
  /\ LET msg == Head(cycles[c].batch)
     IN IF settlements[rpcId] = << "result" >>
        THEN SocketRun(c, Tail(cycles[c].batch))
        ELSE /\ CASE cycles[c].pc = "sendTryExecute" ->
                       SocketSend(c, "sendFinal", cycles[c].batch, << ReplyEvent(msg) >>)
                  [] cycles[c].pc = "sendTryCreate" ->
                       SocketSend(c, "sendFinal", cycles[c].batch,
                                  << SendEvent(msg, msg.source, "") >>)
                  [] OTHER ->
                       /\ cycles' = [cycles EXCEPT ![c] = [pc |-> "idle", batch |-> <<>>]]
                       /\ stepLog' = <<>>
                       /\ rpcLog' = RpcEvent("poll", 0, "")
                       /\ UNCHANGED <<rpcId, pendingRpc, timers>>
             /\ UNCHANGED <<processedMessages, retainedIds, nAdmitted, firstAdmitted>>
  /\ UNCHANGED <<delivered, alive, wsState, isConnected, reconnectTimers, everOpen,
                 settlements, removals, messageQueue, arrived, returned>>
  /\ UNCHANGED <<parserVars, fnVars, eventVars, connVars>>

\* the bridge in json-rpc mode: one poll cycle at a time over the socket
SocketNext ==
  \/ InitClient
  \/ WsOpen
  \/ WsClose
  \/ WsConnectFailed
  \/ ReconnectTimerFires
  \/ \E id \in RpcIds : TimeoutFires(id)
  \/ \E id \in RpcIds : \E isError \in BOOLEAN : WsMessage(Response(id, isError))
  \/ \E e \in SocketEnvelopes : WsMessage(Notification("receive", TRUE, e))
  \/ SocketPoll(1)
  \/ SocketExecuteReturn(1)
  \/ SocketSendSettled(1)

-----------------------------------------------------------------------------
(* The Home Assistant backend *)

\* an entity of GET /api/states; friendly_name "" stands for an entity
\* without attributes.friendly_name
Entity(id, friendly, state) ==
  [entity_id |-> id, friendly_name |-> friendly, state |-> state]

\* findEntity returns null
NoEntity == Entity("", "", "")

\* The entity lists the backend can hold: a light that can be renamed and
\* switched, and a lock without a friendly name that can be removed.
Worlds ==
  { << Entity("light.kitchen", friendly, state) >> \o door :
      friendly \in {"Kitchen Light", "Cooker"},
      state    \in {"off", "on"},
      door     \in { <<>>, << Entity("lock.front_door", "", "locked") >> } }

\* err.message of a failed backend call
ErrMessage == "connect ECONNREFUSED"

-----------------------------------------------------------------------------
(* CommandParser: the entity cache *)

\* Map.prototype.set: an existing key keeps its place
MapSet(map, key, value) ==
  IF \E i \in DOMAIN map : map[i].key = key
  THEN [i \in DOMAIN map |->
          IF map[i].key = key THEN [key |-> key, value |-> value] ELSE map[i]]
  ELSE Append(map, [key |-> key, value |-> value])

\* Map.prototype.has
MapHas(map, key) == \E i \in DOMAIN map : map[i].key = key

\* Map.prototype.get of a key the map has
MapGet(map, key) == map[CHOOSE i \in DOMAIN map : map[i].key = key].value

MapKeys(map) == { map[i].key : i \in DOMAIN map }

\* id.split('.')[0]
DomainOf(id) ==
  LET i == IndexOf(id, ".") IN IF i = 0 THEN id ELSE SubSeq(id, 1, i - 1)

\* attributes.friendly_name || entity_id
DisplayName(entity) ==
  IF entity.friendly_name # "" THEN entity.friendly_name ELSE entity.entity_id

\* id.replace(`${domain}.`, '').replace(/_/g, ' ').toLowerCase()
NormalizedId(id) ==
  ToLowerCase(ReplaceAll(Replace(id, DomainOf(id) \o ".", ""), "_", " "))

\* the body of the for loop of refreshCache: one entity under three aliases
SetAliases(cache, entity) ==
  MapSet(MapSet(MapSet(cache, ToLowerCase(entity.entity_id), entity),
                ToLowerCase(DisplayName(entity)), entity),
         NormalizedId(entity.entity_id), entity)

\* the for loop of refreshCache over the list getStates returned
RECURSIVE refreshCacheLoop(_, _)
refreshCacheLoop(cache, states) ==
  IF states = <<>> THEN cache
  ELSE refreshCacheLoop(SetAliases(cache, Head(states)), Tail(states))

\* the partial match of findEntity: the first entry, in insertion order,
\* whose key contains the name or is contained in it
PartialMatch(cache, normalized) ==
  LET hits == { i \in DOMAIN cache :
                  Includes(cache[i].key, normalized) \/ Includes(normalized, cache[i].key) }
  IN IF hits = {} THEN NoEntity
     ELSE cache[CHOOSE i \in hits : \A j \in hits : i <= j].value

\* findEntity without the lower-casing of the name
findEntity_CaseSensitive(cache, name) ==
  LET normalized == Trim(name)
  IN IF MapHas(cache, normalized) THEN MapGet(cache, normalized)
     ELSE PartialMatch(cache, normalized)

\* findEntity(name) on the cache given
findEntity(cache, name) ==
  LET normalized == Trim(ToLowerCase(name))
  IN IF MapHas(cache, normalized) THEN MapGet(cache, normalized)
     ELSE PartialMatch(cache, normalized)

-----------------------------------------------------------------------------
(* CommandParser.execute: the grammar *)

Digits == {"0", "1", "2", "3", "4", "5", "6", "7", "8", "9"}

DigitValue(c) ==
  CASE c = "0" -> 0 [] c = "1" -> 1 [] c = "2" -> 2 [] c = "3" -> 3 [] c = "4" -> 4
    [] c = "5" -> 5 [] c = "6" -> 6 [] c = "7" -> 7 [] c = "8" -> 8 [] c = "9" -> 9

\* parseInt of a string of digits
RECURSIVE ParseInt(_)
ParseInt(s) ==
  IF s = "" THEN 0
  ELSE 10 * ParseInt(SubSeq(s, 1, Len(s) - 1)) + DigitValue(CharAt(s, Len(s)))

NoMatch == [matched |-> FALSE, name |-> "", level |-> 0]

\* cmd.match(/dim (.+) to (\d+)%?/): the leftmost "dim ", the longest name
\* that is followed by " to " and a digit, and the digits that follow
DimMatch(cmd) ==
  LET tos(i) == { j \in i + 5 .. Len(cmd) - 4 :
                    SubSeq(cmd, j, j + 3) = " to " /\ CharAt(cmd, j + 4) \in Digits }
      starts == { i \in 1 .. Len(cmd) - 3 :
                    SubSeq(cmd, i, i + 3) = "dim " /\ tos(i) # {} }
  IN IF starts = {} THEN NoMatch
     ELSE LET i == CHOOSE a \in starts : \A b \in starts : a <= b
              j == CHOOSE a \in tos(i) : \A b \in tos(i) : a >= b
              ends == { k \in j + 4 .. Len(cmd) :
                          \A d \in j + 4 .. k : CharAt(cmd, d) \in Digits }
              k == CHOOSE a \in ends : \A b \in ends : a >= b
          IN [matched |-> TRUE,
              name    |-> SubSeq(cmd, i + 4, j - 1),
              level   |-> ParseInt(SubSeq(cmd, j + 4, k))]

Branch(rule, arg, level) == [rule |-> rule, arg |-> arg, level |-> level]

NoBranch == Branch("", "", 0)

\* the discovery commands with the test of 'list ' moved to the front
DiscoveryBranch_AreaFirst(cmd) ==
  IF StartsWith(cmd, "list ")
    THEN Branch("listArea", Replace(cmd, "list ", ""), 0)
  ELSE IF cmd = "list lights" \/ cmd = "lights" THEN Branch("listLights", "", 0)
  ELSE IF cmd = "list switches" \/ cmd = "switches" THEN Branch("listSwitches", "", 0)
  ELSE IF cmd = "list sensors" THEN Branch("listSensors", "", 0)
  ELSE NoBranch

\* the discovery commands of execute, in the order they are tested
DiscoveryBranch(cmd) ==
  IF cmd = "list lights" \/ cmd = "lights" THEN Branch("listLights", "", 0)
  ELSE IF cmd = "list switches" \/ cmd = "switches" THEN Branch("listSwitches", "", 0)
  ELSE IF cmd = "list sensors" THEN Branch("listSensors", "", 0)
  ELSE IF StartsWith(cmd, "list ")
    THEN Branch("listArea", Replace(cmd, "list ", ""), 0)
  ELSE NoBranch

\* the chain of tests of execute on cmd = text.toLowerCase().trim(): the
\* handler it calls and the arguments it passes
ExecuteBranch(cmd) ==
  IF cmd = "help" \/ cmd = "?" THEN Branch("help", "", 0)
  ELSE IF cmd = "status" THEN Branch("status", "", 0)
  ELSE IF StartsWith(cmd, "status ")
    THEN Branch("statusArea", Replace(cmd, "status ", ""), 0)
  ELSE IF cmd = "temperature" \/ cmd = "temp" THEN Branch("temperature", "", 0)
  ELSE IF cmd = "locks" THEN Branch("locks", "", 0)
  ELSE IF DiscoveryBranch(cmd) # NoBranch THEN DiscoveryBranch(cmd)
  ELSE IF StartsWith(cmd, "turn on ")
    THEN Branch("turnOn", Replace(cmd, "turn on ", ""), 0)
  ELSE IF StartsWith(cmd, "turn off ")
    THEN Branch("turnOff", Replace(cmd, "turn off ", ""), 0)
  ELSE IF StartsWith(cmd, "toggle ")
    THEN Branch("toggle", Replace(cmd, "toggle ", ""), 0)
  ELSE IF StartsWith(cmd, "dim ") /\ DimMatch(cmd).matched
    THEN Branch("dim", DimMatch(cmd).name, DimMatch(cmd).level)
  ELSE IF StartsWith(cmd, "is ") /\ Includes(cmd, " on")
    THEN Branch("isOn",
                Replace(Replace(Replace(cmd, "is ", ""), " on?", ""), " on", ""), 0)
  ELSE IF StartsWith(cmd, "is ") /\ Includes(cmd, " locked")
    THEN Branch("isLocked",
                Replace(Replace(Replace(cmd, "is ", ""), " locked?", ""), " locked", ""), 0)
  ELSE Branch("unknown", "", 0)

-----------------------------------------------------------------------------
(* CommandParser.execute: the handlers *)

\* The emoji of the replies are written as names in brackets: "[ok] " for
\* the check mark, "[x] " for the cross, "[?] " for the question mark.
\* Of a rendering of several lines only the first line is kept.

\* cmd = text.toLowerCase().trim()
CommandOf(text) == Trim(ToLowerCase(text))

\* the requests the Home Assistant client sends
GetStates == [kind |-> "getStates", service |-> "", entity_id |-> "", level |-> 0]

Service(service, id, level) ==
  [kind |-> "service", service |-> service, entity_id |-> id, level |-> level]

\* the handlers that only read the entity list
Queries ==
  {"status", "statusArea", "temperature", "locks", "listLights",
   "listSwitches", "listSensors", "listArea"}

\* the handlers that resolve a name and call a service
Controls == {"turnOn", "turnOff", "toggle", "dim"}

\* the control handlers with the brightness clamped to 100
ControlRequest_Clamped(b, entity) ==
  CASE b.rule = "turnOn"  -> Service("homeassistant.turn_on", entity.entity_id, 0)
    [] b.rule = "turnOff" -> Service("homeassistant.turn_off", entity.entity_id, 0)
    [] b.rule = "toggle"  -> Service("homeassistant.toggle", entity.entity_id, 0)
    [] b.rule = "dim"     ->
         Service("light.turn_on", entity.entity_id, IF b.level > 100 THEN 100 ELSE b.level)

\* the control handlers with turn on calling the toggle service
ControlRequest_TurnOnToggles(b, entity) ==
  CASE b.rule \in {"turnOn", "toggle"}
                          -> Service("homeassistant.toggle", entity.entity_id, 0)
    [] b.rule = "turnOff" -> Service("homeassistant.turn_off", entity.entity_id, 0)
    [] b.rule = "dim"     -> Service("light.turn_on", entity.entity_id, b.level)

\* the request a control handler awaits once its name has resolved
ControlRequest(b, entity) ==
  CASE b.rule = "turnOn"  -> Service("homeassistant.turn_on", entity.entity_id, 0)
    [] b.rule = "turnOff" -> Service("homeassistant.turn_off", entity.entity_id, 0)
    [] b.rule = "toggle"  -> Service("homeassistant.toggle", entity.entity_id, 0)
    [] b.rule = "dim"     -> Service("light.turn_on", entity.entity_id, b.level)

\* setBrightness without the test of the domain
IsLightEntity_Any(entity) == TRUE

\* entity.entity_id.startsWith('light.')
IsLightEntity(entity) == StartsWith(entity.entity_id, "light.")

\* the reply of a handler whose name did not resolve
NotFoundReply(b) ==
  IF b.rule = "dim" THEN "[?] Light not found: \"" \o b.arg \o "\""
  ELSE "[?] Entity not found: \"" \o b.arg \o "\""

\* getEntityStatus: the state of the cached record with its icon
EntityStatusReply(entity) ==
  LET status == entity.state
      icon == CASE status = "locked"   -> "[locked] "
                [] status = "unlocked" -> "[unlocked] "
                [] status \in {"on", "home"} -> "[blue] "
                [] OTHER -> "[white] "
  IN icon \o "*" \o DisplayName(entity) \o "* Status: " \o status

\* what a handler does before its first await: done with a reply, or a
\* request issued for the entity resolved
Handle(b, cache, text) ==
  LET entity == findEntity(cache, b.arg)
      done(reply, e) == [done |-> TRUE, reply |-> reply, entity |-> e, request |-> GetStates]
      await(req, e)  == [done |-> FALSE, reply |-> "", entity |-> e, request |-> req]
  IN CASE b.rule = "help"    -> done("[home] *Home Assistant Bot Commands*", NoEntity)
       [] b.rule = "unknown" -> done("[?] I don't understand: \"" \o text \o "\"", NoEntity)
       [] b.rule \in Queries -> await(GetStates, NoEntity)
       [] b.rule \in Controls ->
            IF entity = NoEntity THEN done(NotFoundReply(b), NoEntity)
            ELSE IF b.rule = "dim" /\ ~IsLightEntity(entity)
              THEN done("[x] \"" \o b.arg \o "\" is not a dimmable light", entity)
            ELSE await(ControlRequest(b, entity), entity)
       [] b.rule \in {"isOn", "isLocked"} ->
            IF entity = NoEntity THEN done(NotFoundReply(b), NoEntity)
            ELSE done(EntityStatusReply(entity), entity)

\* states.filter(e => e.entity_id.startsWith(`${type}.`))
EntitiesByType(states, type) ==
  SelectSeq(states, LAMBDA e : StartsWith(e.entity_id, type \o "."))

\* getEntitiesByArea: the heuristic match on the friendly name or the id
EntitiesByArea(states, area) ==
  SelectSeq(states, LAMBDA e :
    IF e.friendly_name # ""
    THEN Includes(ToLowerCase(e.friendly_name), ToLowerCase(area))
    ELSE Includes(ToLowerCase(e.entity_id), ReplaceAll(ToLowerCase(area), " ", "_")))

\* the reply of a handler whose backend call returned; states is the list
\* a query got
SuccessReply(b, entity, states) ==
  LET typed(type, title) ==
        IF EntitiesByType(states, type) = <<>> THEN "[?] No " \o type \o "s found"
        ELSE "*" \o title \o "s* (" \o ToString(Len(EntitiesByType(states, type))) \o " total)"
      inArea == EntitiesByArea(states, b.arg)
  IN CASE b.rule = "status" -> "[home] *Home Status*"
       [] b.rule = "statusArea" ->
            IF inArea = <<>> THEN "[?] No entities found in area: " \o b.arg
            ELSE "[home] *" \o b.arg \o " Status*"
       [] b.rule = "temperature" -> "[?] No temperature sensors found"
       [] b.rule = "locks" ->
            IF EntitiesByType(states, "lock") = <<>> THEN "[home] No locks configured"
            ELSE "[lock] *Lock Status*"
       [] b.rule = "listLights"   -> typed("light", "Light")
       [] b.rule = "listSwitches" -> typed("switch", "Switch")
       [] b.rule = "listSensors"  -> typed("sensor", "Sensor")
       [] b.rule = "listArea" ->
            IF inArea = <<>> THEN "[?] No entities found in: " \o b.arg
            ELSE "*Entities in " \o b.arg \o "* (" \o ToString(Len(inArea)) \o "):"
       [] b.rule = "turnOn"  -> "[ok] Turned on: " \o DisplayName(entity)
       [] b.rule = "turnOff" -> "[ok] Turned off: " \o DisplayName(entity)
       [] b.rule = "toggle" ->
            "[toggle] Toggled " \o DisplayName(entity) \o " to "
              \o (IF entity.state = "on" THEN "off" ELSE "on")
       [] b.rule = "dim" ->
            "[bulb] Set " \o DisplayName(entity) \o " to " \o ToString(b.level)
              \o "% brightness"

\* the reply of the catch block of a handler
FailureReply(b, entity) ==
  CASE b.rule = "status"      -> "[x] Error getting status: " \o ErrMessage
    [] b.rule = "statusArea"  -> "[x] Error getting area status: " \o ErrMessage
    [] b.rule = "temperature" -> "[x] Error getting temperatures: " \o ErrMessage
    [] b.rule = "locks"       -> "[x] Error getting lock status: " \o ErrMessage
    [] b.rule \in {"listLights", "listSwitches", "listSensors"}
                              -> "[x] Error listing entities: " \o ErrMessage
    [] b.rule = "listArea"    -> "[x] Error listing area entities: " \o ErrMessage
    [] b.rule = "turnOn"      ->
         "[x] Failed to turn on " \o DisplayName(entity) \o ": " \o ErrMessage
    [] b.rule = "turnOff"     -> "[x] Failed to turn off: " \o ErrMessage
    [] b.rule = "toggle"      -> "[x] Failed to toggle: " \o ErrMessage
    [] b.rule = "dim"         -> "[x] Failed to set brightness: " \o ErrMessage

\* what a service call that succeeded does to the entity list of the
\* backend: turn_on, turn_off and toggle set the state of a light
ApplyService(states, request) ==
  [i \in DOMAIN states |->
     IF /\ request.kind = "service"
        /\ states[i].entity_id = request.entity_id
        /\ states[i].state \in {"on", "off"}
     THEN [states[i] EXCEPT !.state =
             CASE request.service = "homeassistant.turn_off" -> "off"
               [] request.service = "homeassistant.toggle" ->
                    IF states[i].state = "on" THEN "off" ELSE "on"
               [] OTHER -> "on"]
     ELSE states[i]]

-----------------------------------------------------------------------------
(* CommandParser.execute: the steps of an invocation *)

\* The texts the bridge loop passes to parser.execute
ParserTexts ==
  { "help", " Status ", "status kitchen", "temp", "locks", "list lights",
    "list kitchen", "Turn on Kitchen Light", "turn on garage", "turn on front door",
    "turn off kitchen", "toggle kitchen", "dim kitchen to 150%",
    "dim kitchen to 0", "dim front door to 20", "dim garage to 5",
    "is kitchen light on?", "is front door locked?", "open sesame" }

IdleCall ==
  [pc |-> "idle", text |-> "", entity |-> NoEntity, requests |-> <<>>,
   refreshFailed |-> FALSE]

\* what a step of an invocation did: "refresh" for the list the loop of
\* refreshCache entered, "findEntity" for a name looked up, "return" for
\* the reply execute returned
ParserEvent(type, text, b, entity, requests, refreshFailed, callFailed, reply) ==
  [type |-> type, text |-> text, rule |-> b.rule, name |-> b.arg, level |-> b.level,
   entity |-> entity, requests |-> requests, refreshFailed |-> refreshFailed,
   callFailed |-> callFailed, reply |-> reply, states |-> <<>>]

RefreshEvent(text, states) ==
  [ParserEvent("refresh", text, NoBranch, NoEntity, <<>>, FALSE, FALSE, "")
     EXCEPT !.states = states]

\* execute from the test of the grammar up to its return or its next await,
\* for invocation c on the cache given
Dispatch(c, text, cache, requests, refreshFailed, events) ==
  LET b == ExecuteBranch(CommandOf(text))
      h == Handle(b, cache, text)
      found == IF b.rule \in Controls \union {"isOn", "isLocked"}
               THEN Append(events, ParserEvent("findEntity", text, b, findEntity(cache, b.arg),
                                   requests, refreshFailed, FALSE, ""))
               ELSE events
  IN IF h.done
     THEN /\ calls' = [calls EXCEPT ![c] = IdleCall]
          /\ parserLog' = Append(found,
               ParserEvent("return", text, b, h.entity, requests, refreshFailed,
                           FALSE, h.reply))
     ELSE /\ calls' = [calls EXCEPT ![c] =
               [pc |-> "calling", text |-> text, entity |-> h.entity,
                requests |-> Append(requests, h.request),
                refreshFailed |-> refreshFailed]]
          /\ parserLog' = found

\* parser.execute(text) is called: the cache is refreshed if it is empty
Execute(c, text) ==
  /\ calls[c].pc = "idle"
  /\ IF entityCache = <<>>
     THEN /\ calls' = [calls EXCEPT ![c] =
               [IdleCall EXCEPT !.pc = "refreshing", !.text = text,
                                !.requests = << GetStates >>]]
          /\ parserLog' = <<>>
     ELSE Dispatch(c, text, entityCache, <<>>, FALSE, <<>>)
  /\ UNCHANGED <<haEntities, entityCache, stale>>
  /\ UNCHANGED <<bridgeVars, rpcVars, fnVars, eventVars, connVars>>

\* refreshCache with only the first entity of the list entered
RefreshReturn_FirstOnly(c) ==
  /\ calls[c].pc = "refreshing"
  /\ entityCache' = SetAliases(entityCache, Head(haEntities))
  /\ stale' = FALSE
  /\ Dispatch(c, calls[c].text, entityCache', calls[c].requests, FALSE,
              << RefreshEvent(calls[c].text, haEntities) >>)
  /\ UNCHANGED haEntities
  /\ UNCHANGED <<bridgeVars, rpcVars, fnVars, eventVars, connVars>>

\* getStates of refreshCache returns the list the backend holds: the loop
\* enters every entity and execute goes on
RefreshReturn(c) ==
  /\ calls[c].pc = "refreshing"
  /\ entityCache' = refreshCacheLoop(entityCache, haEntities)
  /\ stale' = FALSE
  /\ Dispatch(c, calls[c].text, entityCache', calls[c].requests, FALSE,
              << RefreshEvent(calls[c].text, haEntities) >>)
  /\ UNCHANGED haEntities
  /\ UNCHANGED <<bridgeVars, rpcVars, fnVars, eventVars, connVars>>

\* getStates of refreshCache throws: the catch logs it and execute goes on
RefreshThrows(c) ==
  /\ calls[c].pc = "refreshing"
  /\ Dispatch(c, calls[c].text, entityCache, calls[c].requests, TRUE, <<>>)
  /\ UNCHANGED <<haEntities, entityCache, stale>>
  /\ UNCHANGED <<bridgeVars, rpcVars, fnVars, eventVars, connVars>>

\* the backend call of the handler returns: the reply is rendered
CallReturn(c) ==
  /\ calls[c].pc = "calling"
  /\ LET call == calls[c]
         b == ExecuteBranch(CommandOf(call.text))
         request == call.requests[Len(call.requests)]
     IN /\ haEntities' = ApplyService(haEntities, request)
        /\ parserLog' =
             << ParserEvent("return", call.text, b, call.entity, call.requests,
                            call.refreshFailed, FALSE,
                            SuccessReply(b, call.entity, haEntities)) >>
  /\ calls' = [calls EXCEPT ![c] = IdleCall]
  /\ UNCHANGED <<entityCache, stale>>
  /\ UNCHANGED <<bridgeVars, rpcVars, fnVars, eventVars, connVars>>

\* the backend call of the handler throws and no catch is around it
CallThrows_Uncaught(c) ==
  /\ calls[c].pc = "calling"
  /\ parserLog' = <<>>
  /\ calls' = [calls EXCEPT ![c] = IdleCall]
  /\ UNCHANGED <<haEntities, entityCache, stale>>
  /\ UNCHANGED <<bridgeVars, rpcVars, fnVars, eventVars, connVars>>

\* the backend call of the handler throws: the catch renders the failure
CallThrows(c) ==
  /\ calls[c].pc = "calling"
  /\ LET call == calls[c]
         b == ExecuteBranch(CommandOf(call.text))
     IN parserLog' =
          << ParserEvent("return", call.text, b, call.entity, call.requests,
                         call.refreshFailed, TRUE, FailureReply(b, call.entity)) >>
  /\ calls' = [calls EXCEPT ![c] = IdleCall]
  /\ UNCHANGED <<haEntities, entityCache, stale>>
  /\ UNCHANGED <<bridgeVars, rpcVars, fnVars, eventVars, connVars>>

\* the home changes: an entity is renamed, switched, removed or added
BackendChanges ==
  /\ \E w \in Worlds : w # haEntities /\ haEntities' = w
  /\ parserLog' = <<>>
  /\ UNCHANGED <<entityCache, calls, stale>>
  /\ UNCHANGED <<bridgeVars, rpcVars, fnVars, eventVars, connVars>>

\* cacheExpiry (5 minutes) passes after the cache was built
CacheExpires ==
  /\ entityCache # <<>>
  /\ ~stale
  /\ stale' = TRUE
  /\ parserLog' = <<>>
  /\ UNCHANGED <<haEntities, entityCache, calls>>
  /\ UNCHANGED <<bridgeVars, rpcVars, fnVars, eventVars, connVars>>

\* the home when the bridge starts
InitialEntities ==
  << Entity("light.kitchen", "Kitchen Light", "off"),
     Entity("lock.front_door", "", "locked") >>

ParserInit ==
  /\ haEntities = InitialEntities
  /\ entityCache = <<>>
  /\ calls = [c \in Cycles |-> IdleCall]
  /\ stale = FALSE
  /\ parserLog = <<>>

\* the commands of one poll cycle, one after the other, over a changing
\* backend
ParserNext ==
  \/ \E text \in ParserTexts : Execute(1, text)
  \/ RefreshReturn(1)
  \/ RefreshThrows(1)
  \/ CallReturn(1)
  \/ CallThrows(1)
  \/ BackendChanges
  \/ CacheExpires

\* the texts of the invocations that overlap
OverlapTexts == { "help", "is kitchen light on?" }

\* invocations of overlapping poll cycles: each one that starts on an empty
\* cache awaits its own refresh
OverlapNext ==
  \/ \E c \in Cycles : \E text \in OverlapTexts : Execute(c, text)
  \/ \E c \in Cycles : RefreshReturn(c)
  \/ \E c \in Cycles : RefreshThrows(c)
  \/ BackendChanges
  \/ CacheExpires

-----------------------------------------------------------------------------
(* Direct calls of findEntity and of the grammar of execute *)

\* the names and texts the methods are applied to
FnTexts ==
  { "", "Kitchen Light", "kitchen light", "KITCHEN", "Cooker", "cook",
    "light.kitchen", "LIGHT.KITCHEN", "the kitchen light please", "front door",
    "My Front Door", "COOK",
    "Front Door", "door", "lock", "garage", " kitchen ", "k",
    "help", "?", "Status", "status", "status kitchen", "Status Kitchen",
    "statusx", "temperature", "temp", "locks", "list lights", "List Lights",
    "lights", "list switches", "switches", "list sensors", "sensors",
    "list kitchen", "list locks", "turn on kitchen light", "turn on", "turn on  x",
    "turn off cooker", "toggle door", "dim kitchen to 150%", "dim kitchen to 7",
    "dim kitchen", "dim a to b to 20% to 3", "is kitchen light on?",
    "is kitchen on", "is front door locked?", "is door locked", "is status on",
    "is it locked on?", "list", "is", "open sesame" }

\* the caches findEntity is applied to: empty, built from one list, and
\* built from one list and refreshed from another
FnCaches ==
  {<<>>} \union { refreshCacheLoop(<<>>, w) : w \in Worlds }
         \union { refreshCacheLoop(refreshCacheLoop(<<>>, v), w) : v, w \in Worlds }

\* the answers of the chat backend to the receive GET
RestResponses ==
  { HttpResponse(status, body, <<>>) :
      status \in {200, 204, 400, 401, 404, 500, 503}, body \in {"none", "object"} }
    \cup { HttpResponse(0, "none", <<>>) }
    \cup { HttpResponse(200, "array", envs) :
             envs \in {<<>>} \cup { <<e>> : e \in Envelopes } }

NoResponse == HttpResponse(0, "", <<>>)

\* the raw envelopes both transports are applied to: those of the bridge
\* loop and a group message without a text
RawEnvelopes ==
  Envelopes \cup { DataEnvelope(3, "+1555", GroupInfo("abc="), "") }

NoResult ==
  [fn |-> "", entity |-> NoEntity, branch |-> NoBranch, response |-> NoResponse,
   outcome |-> RestOutcome(FALSE, <<>>), queue |-> <<>>,
   envelopes |-> <<>>, stream |-> <<>>, processed |-> <<>>,
   dispatched |-> <<>>, dispatchedAlone |-> <<>>,
   states |-> <<>>, name |-> "", target |-> NoEntity]

\* parser.findEntity(fnArg)
FindEntityCall ==
  /\ fnResult.fn # "findEntity"
  /\ fnResult' = [NoResult EXCEPT !.fn = "findEntity",
                                   !.entity = findEntity(entityCache, fnArg)]
  /\ UNCHANGED fnArg
  /\ UNCHANGED <<bridgeVars, rpcVars, parserVars, eventVars, connVars>>

\* the branch parser.execute(fnArg) takes
ExecuteBranchCall ==
  /\ fnResult.fn # "execute"
  /\ fnResult' = [NoResult EXCEPT !.fn = "execute",
                                   !.branch = ExecuteBranch(CommandOf(fnArg))]
  /\ UNCHANGED fnArg
  /\ UNCHANGED <<bridgeVars, rpcVars, parserVars, eventVars, connVars>>

\* signal.receiveMessagesRest() on an answer of the chat backend
ReceiveMessagesRestCall ==
  /\ \E response \in RestResponses :
       fnResult' = [NoResult EXCEPT !.fn = "receiveMessagesRest",
                                    !.response = response,
                                    !.outcome = receiveMessagesRestCall(response)]
  /\ UNCHANGED fnArg
  /\ UNCHANGED <<bridgeVars, rpcVars, parserVars, eventVars, connVars>>

\* one raw envelope through both transports: as the only element of the
\* array the receive GET returns, and as the params of a 'receive' push
\* on an empty queue
NormalizeCall ==
  /\ \E envelope \in RawEnvelopes :
       LET response == HttpResponse(200, "array", << envelope >>)
       IN fnResult' = [NoResult EXCEPT !.fn = "normalize",
                                       !.response = response,
                                       !.outcome = receiveMessagesRestCall(response),
                                       !.queue = processEnvelope(<<>>, envelope)]
  /\ UNCHANGED fnArg
  /\ UNCHANGED <<bridgeVars, rpcVars, parserVars, eventVars, connVars>>

\* the envelopes of the inbound streams: a command of an allow-listed
\* sender, a command in a group, two messages of a sender that is not on
\* the allow-list, and a command the bot's own account sent
StreamEnvelopes ==
  { DataEnvelope(1, "+1555",  NoGroupInfo,       " Status "),
    DataEnvelope(2, "+15551", GroupInfo("abc="), " Status "),
    DataEnvelope(1, "+1999",  NoGroupInfo,       " Status "),
    DataEnvelope(2, "+1999",  NoGroupInfo,       " Status "),
    DataEnvelope(3, signalNumber, NoGroupInfo,   " Status ") }

Streams == UNION { [1 .. n -> StreamEnvelopes] : n \in 0 .. MaxStream }

\* pollMessages over a whole inbound stream, one cycle after the other,
\* with every awaited call and send returning: the loop state at the end
RECURSIVE PollAll(_, _)
PollAll(st, batch) ==
  LET r == RunLoop(st, batch)
  IN IF r.pc = "idle" THEN r.st ELSE PollAll(r.st, Tail(r.batch))

\* the loop state a process starts with
FreshLoopState == [pm |-> <<>>, ids |-> <<>>, n |-> 0, first |-> "", log |-> <<>>]

\* the messages handed to the command handlers, in order; the backend
\* calls and the replies of a run are those of these messages
Dispatched(messages) ==
  LET log == SelectSeq(PollAll(FreshLoopState, messages).log,
                       LAMBDA e : e.type = "dispatch")
  IN [i \in DOMAIN log |-> log[i].msg]

\* the message queue of the socket client after the pushes of envs
RECURSIVE PushAll(_, _)
PushAll(queue, envs) ==
  IF envs = <<>> THEN queue
  ELSE PushAll(processEnvelope(queue, Head(envs)), Tail(envs))

\* the stream without the Individual messages of senders off the allow-list
WithoutRejected(messages) == SelectSeq(messages, LAMBDA m : ~Rejected(m))

\* one inbound stream of a process: through receiveMessagesRest and as
\* pushes through processEnvelope, and then through the loop, as it is and
\* without its unauthorized messages
PollAllCall ==
  /\ fnResult = NoResult
  /\ \E envs \in Streams :
       LET messages == receiveMessagesRest(envs)
       IN fnResult' = [NoResult EXCEPT !.fn = "pollAll",
                                       !.envelopes = envs,
                                       !.stream = messages,
                                       !.queue = PushAll(<<>>, envs),
                                       !.processed = PollAll(FreshLoopState, messages).ids,
                                       !.dispatched = Dispatched(messages),
                                       !.dispatchedAlone =
                                          Dispatched(WithoutRejected(messages))]
  /\ UNCHANGED fnArg
  /\ UNCHANGED <<bridgeVars, rpcVars, parserVars, eventVars, connVars>>

StreamNext == PollAllCall

\* the entities a backend can return: three ids, each without a friendly
\* name or with one that the user chose
ListedEntities ==
  { Entity(id, friendly, "off") :
      id \in {"light.kitchen", "lock.front_door", "switch.fan"},
      friendly \in {"", "Kitchen Light", "Light.Kitchen", "Fan"} }

\* the lists getStates can return: up to MaxListed entities with different ids
EntityLists ==
  { list \in UNION { [1 .. n -> ListedEntities] : n \in 1 .. MaxListed } :
      \A i, j \in DOMAIN list : i # j => list[i].entity_id # list[j].entity_id }

\* a canonical id as a user may type it
Spellings(id) ==
  {id} \cup CASE id = "light.kitchen"   -> {"LIGHT.KITCHEN", "Light.Kitchen"}
             [] id = "lock.front_door" -> {"LOCK.FRONT_DOOR"}
             [] OTHER                  -> {"Switch.Fan"}

\* refreshCache on an empty cache over a list, then findEntity of the
\* canonical id of one of its entities
ResolveCall ==
  /\ fnResult = NoResult
  /\ \E list \in EntityLists : \E i \in DOMAIN list :
       \E name \in Spellings(list[i].entity_id) :
         fnResult' = [NoResult EXCEPT !.fn = "resolve",
                                      !.states = list,
                                      !.name = name,
                                      !.target = list[i],
                                      !.entity = findEntity(refreshCacheLoop(<<>>, list), name)]
  /\ UNCHANGED fnArg
  /\ UNCHANGED <<bridgeVars, rpcVars, parserVars, eventVars, connVars>>

ResolveNext == ResolveCall

FnIdle == fnArg = "" /\ fnResult = NoResult

FnNext ==
  FindEntityCall \/ ExecuteBranchCall \/ ReceiveMessagesRestCall \/ NormalizeCall

-----------------------------------------------------------------------------
(* The subscription to the events of the backend *)

\* A JavaScript object is a record; reading a property it does not have
\* yields undefined, which is falsy.
HasProp(obj, name) == name \in DOMAIN obj

\* a state object of an entity; state "" stands for a null state object
\* (the entity did not exist before, or was removed)
StateObject(state, friendly) == [state |-> state, friendly_name |-> friendly]

\* the frames of the event stream of Home Assistant: the data of a
\* state_changed event holds entity_id, old_state and new_state
HaFrame(type, event_type, id, old, new) ==
  [type |-> type,
   event |-> [event_type |-> event_type,
              data |-> [entity_id |-> id, old_state |-> old, new_state |-> new]]]

EventEntities == {"lock.front_door", "binary_sensor.hall_motion", "light.kitchen"}

EventStates == {"", "locked", "unlocked", "on", "off"}

HaFrames ==
  { HaFrame("event", "state_changed", id, StateObject(old, ""), StateObject(new, friendly)) :
      id \in EventEntities, old \in EventStates, new \in EventStates,
      friendly \in {"", "Front Door"} }
    \cup { HaFrame("auth_ok", "", "", StateObject("", ""), StateObject("", "")),
           HaFrame("result", "", "", StateObject("", ""), StateObject("", "")),
           HaFrame("event", "call_service", "lock.front_door",
                   StateObject("locked", ""), StateObject("unlocked", "")) }

\* the 'message' handler of subscribeToEvents calls back with msg.event.data
CallsBack(frame) ==
  frame.type = "event" /\ frame.event.event_type = "state_changed"

Broadcast(text, groupId) == [text |-> text, target |-> SendTarget("", groupId)]

\* The handler main subscribes, on event = msg.event.data: the sends to the
\* broadcast group it attempts, in order.  A send that fails is caught and
\* logged, and the handler goes on to its second test.
OnStateChanged(groupId, event) ==
  IF /\ groupId # ""
     /\ HasProp(event, "data")
     /\ HasProp(event.data, "entity_id")
     /\ event.data.entity_id # ""
  THEN LET entityId == event.data.entity_id
           newState == event.data.new_state
           oldState == event.data.old_state
           name     == IF newState.friendly_name # "" THEN newState.friendly_name
                                                      ELSE entityId
       IN (IF /\ StartsWith(entityId, "lock.")
              /\ newState.state = "unlocked" /\ oldState.state = "locked"
           THEN << Broadcast("[unlocked] " \o name \o " was unlocked", groupId) >>
           ELSE <<>>)
          \o
          (IF /\ Includes(entityId, "motion")
              /\ newState.state = "on" /\ oldState.state = "off"
           THEN << Broadcast("[motion] Motion detected: " \o name, groupId) >>
           ELSE <<>>)
  ELSE <<>>

NoFrame == HaFrame("", "", "", StateObject("", ""), StateObject("", ""))

\* the event stream delivers a frame
HaMessage(frame) ==
  /\ eventLog' = [frame |-> frame,
                  calledBack |-> CallsBack(frame),
                  sends |-> IF CallsBack(frame)
                            THEN OnStateChanged(haGroupId, frame.event.data)
                            ELSE <<>>]
  /\ UNCHANGED haGroupId
  /\ UNCHANGED <<bridgeVars, rpcVars, parserVars, fnVars, connVars>>

\* no broadcast group (individual mode, or the group setup failed)
EventIdle ==
  /\ haGroupId = ""
  /\ eventLog = [frame |-> NoFrame, calledBack |-> FALSE, sends |-> <<>>]

EventNext == \E frame \in HaFrames : HaMessage(frame)

-----------------------------------------------------------------------------
(* The connections of the two socket clients and their disconnect() *)

SocketIds == 1 .. MaxSockets

\* a socket of the event stream: its state, the frames the client wrote to
\* it in order, and whether the backend has accepted its auth frame
HaSocket(state, sent, authOk) == [state |-> state, sent |-> sent, authOk |-> authOk]

\* what a step of the event stream did: the handler that ran, the socket it
\* ran for, and how often it invoked the callback
StreamStep(type, socket, callbacks) ==
  [type |-> type, socket |-> socket, callbacks |-> callbacks]

HaStream(sockets, armed, step) == [sockets |-> sockets, timers |-> armed, step |-> step]

\* the frames the backend sends over the event stream
HaFrameTypes == {"auth_required", "auth_ok", "result", "state_changed"}

\* this.ws.send(frame): the frame goes to the socket this.ws refers to
SendOnWs(sockets, frame) ==
  [sockets EXCEPT ![Len(sockets)].sent = Append(@, frame)]

\* subscribeToEvents: this.ws = new WebSocket(wsUrl)
subscribeToEvents(sockets) == Append(sockets, HaSocket("connecting", <<>>, FALSE))

\* main subscribes once
SubscribeToEvents ==
  /\ alive /\ haStream.sockets = <<>>
  /\ haStream' = HaStream(subscribeToEvents(haStream.sockets), haStream.timers,
                          StreamStep("subscribe", 1, 0))
  /\ UNCHANGED disconnected
  /\ UNCHANGED <<bridgeVars, rpcVars, parserVars, fnVars, eventVars>>

\* the 'open' handler writes the subscription right after the auth frame
HaWsOpen_SubscribesAtOnce(i) ==
  /\ alive /\ i \in DOMAIN haStream.sockets
  /\ haStream.sockets[i].state = "connecting"
  /\ haStream' = HaStream(SendOnWs(SendOnWs([haStream.sockets EXCEPT ![i].state = "open"],
                                             "auth"), "subscribe_events"),
                          haStream.timers, StreamStep("open", i, 0))
  /\ UNCHANGED disconnected
  /\ UNCHANGED <<bridgeVars, rpcVars, parserVars, fnVars, eventVars>>

\* the 'open' handler of socket i: the auth frame is written to this.ws
HaWsOpen(i) ==
  /\ alive /\ i \in DOMAIN haStream.sockets
  /\ haStream.sockets[i].state = "connecting"
  /\ haStream' = HaStream(SendOnWs([haStream.sockets EXCEPT ![i].state = "open"], "auth"),
                          haStream.timers, StreamStep("open", i, 0))
  /\ UNCHANGED disconnected
  /\ UNCHANGED <<bridgeVars, rpcVars, parserVars, fnVars, eventVars>>

\* the frames the backend can send on socket i: auth_required before the
\* auth frame is answered, auth_ok once as the answer to it, a result and
\* events once the subscription has been received
BackendSends(socket, type) ==
  CASE type = "auth_required" -> ~socket.authOk
    [] type = "auth_ok"       -> ~socket.authOk /\ "auth" \in Range(socket.sent)
    [] OTHER                  -> socket.authOk /\ "subscribe_events" \in Range(socket.sent)

\* the 'message' handler of socket i
HaWsMessage(i, type) ==
  /\ alive /\ i \in DOMAIN haStream.sockets
  /\ haStream.sockets[i].state = "open"
  /\ BackendSends(haStream.sockets[i], type)
  /\ LET accepted == IF type = "auth_ok"
                     THEN [haStream.sockets EXCEPT ![i].authOk = TRUE]
                     ELSE haStream.sockets
     IN haStream' =
          HaStream(IF type = "auth_ok" THEN SendOnWs(accepted, "subscribe_events")
                                       ELSE accepted,
                   haStream.timers,
                   StreamStep(type, i, IF type = "state_changed" THEN 1 ELSE 0))
  /\ UNCHANGED disconnected
  /\ UNCHANGED <<bridgeVars, rpcVars, parserVars, fnVars, eventVars>>

\* the 'close' handler of socket i (after a failed attempt too, where ws
\* emits 'error' first): a 5 s timer is armed
HaWsClose(i) ==
  /\ alive /\ i \in DOMAIN haStream.sockets /\ i < MaxSockets
  /\ haStream.sockets[i].state \in {"connecting", "open"}
  /\ haStream' = HaStream([haStream.sockets EXCEPT ![i].state = "closed"],
                          haStream.timers + 1, StreamStep("close", i, 0))
  /\ UNCHANGED disconnected
  /\ UNCHANGED <<bridgeVars, rpcVars, parserVars, fnVars, eventVars>>

\* a 5 s timer of the close handler fires: subscribeToEvents(callback)
HaTimerFires ==
  /\ alive /\ haStream.timers > 0
  /\ haStream' = HaStream(subscribeToEvents(haStream.sockets), haStream.timers - 1,
                          StreamStep("timer", Len(haStream.sockets) + 1, 0))
  /\ UNCHANGED disconnected
  /\ UNCHANGED <<bridgeVars, rpcVars, parserVars, fnVars, eventVars>>

\* HomeAssistant.disconnect(): this.ws.close() if there is a socket; its
\* 'close' event follows (HaWsClose)
HaDisconnect ==
  /\ alive
  /\ disconnected' = [disconnected EXCEPT !.ha = TRUE]
  /\ haStream' = [haStream EXCEPT !.step = StreamStep("disconnect", Len(haStream.sockets), 0)]
  /\ UNCHANGED <<bridgeVars, rpcVars, parserVars, fnVars, eventVars>>

\* SignalClient.disconnect(): this.ws.close() if there is a socket; its
\* 'close' event follows (WsClose, WsConnectFailed)
Disconnect ==
  /\ alive
  /\ disconnected' = [disconnected EXCEPT !.signal = TRUE]
  /\ UNCHANGED haStream
  /\ UNCHANGED <<bridgeVars, rpcVars, parserVars, fnVars, eventVars>>

ConnIdle ==
  /\ disconnected = [signal |-> FALSE, ha |-> FALSE]
  /\ haStream = HaStream(<<>>, 0, StreamStep("", 0, 0))

\* the connections of both clients
ConnNext ==
  \/ InitClient
  \/ WsOpen
  \/ WsClose
  \/ WsConnectFailed
  \/ ReconnectTimerFires
  \/ Disconnect
  \/ SubscribeToEvents
  \/ \E i \in SocketIds : HaWsOpen(i)
  \/ \E i \in SocketIds : \E type \in HaFrameTypes : HaWsMessage(i, type)
  \/ \E i \in SocketIds : HaWsClose(i)
  \/ HaTimerFires
  \/ HaDisconnect

-----------------------------------------------------------------------------
(* Specifications *)

Init == BridgeInit /\ RpcInit /\ ParserInit /\ FnIdle /\ EventIdle /\ ConnIdle

Spec == Init /\ [][Next]_vars

\* the chat socket client
RpcSpec == Init /\ [][RpcNext]_vars

\* timers fire while the process runs
RpcFairness ==
  /\ WF_vars(ReconnectTimerFires)
  /\ \A id \in RpcIds : WF_vars(TimeoutFires(id))

FairRpcSpec == RpcSpec /\ RpcFairness

\* the bridge loop over the chat socket client
SocketSpec == Init /\ [][SocketNext]_vars

\* the command parser over the backend
ParserSpec == Init /\ [][ParserNext]_vars

\* the command parser under overlapping poll cycles
OverlapSpec == Init /\ [][OverlapNext]_vars

\* findEntity and the grammar applied to any text on any cache
FnInit ==
  /\ BridgeInit
  /\ RpcInit
  /\ haEntities = InitialEntities
  /\ entityCache \in FnCaches
  /\ calls = [c \in Cycles |-> IdleCall]
  /\ stale = FALSE
  /\ parserLog = <<>>
  /\ fnArg \in FnTexts
  /\ fnResult = NoResult
  /\ EventIdle
  /\ ConnIdle

FnSpec == FnInit /\ [][FnNext]_vars

\* the event subscription, with and without a broadcast group
EventInit ==
  /\ BridgeInit /\ RpcInit /\ ParserInit /\ FnIdle /\ ConnIdle
  /\ haGroupId \in {"", "hagroup="}
  /\ eventLog = [frame |-> NoFrame, calledBack |-> FALSE, sends |-> <<>>]

EventSpec == EventInit /\ [][EventNext]_vars

\* the loop over whole inbound streams
StreamSpec == Init /\ [][StreamNext]_vars

\* the entity cache over the lists a backend can return
ResolveSpec == Init /\ [][ResolveNext]_vars

\* the connections of the two socket clients
ConnSpec == Init /\ [][ConnNext]_vars

\* the 5 s timers of the event stream fire while the process runs
FairConnSpec == ConnSpec /\ WF_vars(HaTimerFires)

-----------------------------------------------------------------------------
(* Properties of the bridge loop (specification Spec) *)

Unauthorized(msg) == ~msg.isGroup /\ msg.source \notin allowedNumbers

LogEvents == { stepLog[i] : i \in DOMAIN stepLog }

\* C1: a message identity (timestamp, sender, group id) is admitted by the
\* dedup check exactly once while it is retained: an occurrence is admitted
\* if and only if no message of the same identity is held in the
\* processed-message set.
C1_AdmittedExactlyOnce ==
  \A e \in LogEvents : e.type = "dedup" => (e.ok <=> ~e.seen)

\* C2: an Individual-origin message is dispatched only if its sender is on
\* the allow-list; an admitted Group-origin message with a text is
\* dispatched whatever its sender is.
C2_Authorization ==
  \A i \in DOMAIN stepLog :
    LET e == stepLog[i] IN
    /\ (e.type = "dispatch" /\ ~e.msg.isGroup) => e.msg.source \in allowedNumbers
    /\ (e.type = "auth" /\ ~e.msg.isGroup) => (e.ok <=> e.msg.source \in allowedNumbers)
    /\ (e.type = "dedup" /\ e.ok /\ e.msg.isGroup /\ Trim(e.msg.message) # "")
         => \E j \in DOMAIN stepLog :
              j > i /\ stepLog[j].type = "dispatch" /\ stepLog[j].msg = e.msg

\* a Group-origin message of a sender that is not on the allow-list has
\* been dispatched
C2_Witness ==
  \E e \in LogEvents :
    e.type = "dispatch" /\ e.msg.isGroup /\ e.msg.source \notin allowedNumbers

\* C3: no chat message is sent, no chat-backend call and no Home Assistant
\* call is made for an Individual-origin message whose sender is not on the
\* allow-list.
C3_UnauthorizedSilent ==
  /\ \A e \in LogEvents :
       e.type \in {"dispatch", "send", "ha", "listGroups", "createGroup"}
         => ~Unauthorized(e.msg)
  /\ \A c \in Cycles :
       cycles[c].pc \notin {"idle", "receiving"} => ~Unauthorized(Head(cycles[c].batch))

\* an unauthorized Individual-origin command was admitted by the dedup
\* check, rejected by the allow-list, and the cycle went on to its end
C3_Witness ==
  /\ \E e \in LogEvents :
       e.type = "auth" /\ ~e.ok /\ Unauthorized(e.msg) /\ Trim(e.msg.message) # ""
  /\ \A e \in LogEvents : e.type \in {"dedup", "auth"}
  /\ \A c \in Cycles : cycles[c].pc = "idle"

\* C4: the processed-message set never holds more than messageRetention
\* identities.
C4_SizeAtMostCapacity == Len(processedMessages) <= messageRetention

\* C5: once capacity+1 distinct identities have been admitted into the
\* empty set, the first admitted one is no longer held.
C5_FirstEvictedAfterCapacityPlusOne ==
  nAdmitted = messageRetention + 1 => firstAdmitted \notin Range(processedMessages)

\* C11: every reply of the bridge loop, the replies of the group-management
\* commands included, is addressed to the origin of the message it answers:
\* to the group for a Group-origin message, to the sender otherwise.
C11_ReplyToOrigin ==
  \A e \in LogEvents : e.type = "send" => e.target = e.msg.replyTo

\* the messages of the batch of cycle c that follow the one being handled
\* have all been run through the dedup check by the step just taken
RestOfBatchHandled(c) ==
  \A i \in 2 .. Len(cycles[c].batch) :
    \E j \in DOMAIN stepLog' :
      stepLog'[j].type = "dedup" /\ stepLog'[j].msg = cycles[c].batch[i]

\* C12: a failure while dispatching or replying to one message of a batch
\* affects only that message: a cycle that is handling a message ends only
\* once the remaining messages of its batch have been handled too.
C12_FailureIsolated ==
  [][\A c \in Cycles :
       (cycles[c].pc \notin {"idle", "receiving"} /\ cycles'[c].pc = "idle")
         => RestOfBatchHandled(c)]_vars

\* the pollMessages invocations in progress
InProgress == { c \in Cycles : cycles[c].pc # "idle" }

\* C23: poll cycles never overlap: at most one pollMessages invocation is
\* in progress at any time.
C23_CyclesNeverOverlap == Cardinality(InProgress) <= 1

\* the messages checked for dedup in the events of one step, in order
RECURSIVE CheckedMsgs(_)
CheckedMsgs(log) ==
  IF log = <<>> THEN <<>>
  ELSE IF Head(log).type = "dedup"
       THEN << Head(log).msg >> \o CheckedMsgs(Tail(log))
       ELSE CheckedMsgs(Tail(log))

AwaitsCall(pc) == pc \in {"listGroups", "createGroup", "execute"}
AwaitsSend(pc) == pc \in {"sendFinal", "sendTryCreate", "sendTryExecute"}

\* every send of the step replies to msg
SendsReplyTo(log, msg) ==
  \A i \in DOMAIN log : log[i].type = "send" => log[i].msg = msg

\* a step of cycle c, which is on the head of its batch
InOrderStep(c) ==
  LET old     == cycles[c]
      new     == cycles'[c]
      rest    == Tail(old.batch)
      checked == CheckedMsgs(stepLog')
  IN (new # old /\ (AwaitsCall(old.pc) \/ AwaitsSend(old.pc))) =>
       \* the call or the send of the message is still going on: the
       \* cycle stays on it and checks nothing else
       \/ /\ new.batch = old.batch
          /\ AwaitsSend(new.pc)
          /\ checked = <<>>
          /\ SendsReplyTo(stepLog', Head(old.batch))
       \* its send has returned: the next messages are checked, in the
       \* returned order, up to the one the cycle now waits on
       \/ /\ AwaitsSend(old.pc)
          /\ AwaitsCall(new.pc)
          /\ \E k \in 1 .. Len(rest) :
               /\ checked = SubSeq(rest, 1, k)
               /\ new.batch = SubSeq(rest, k, Len(rest))
          /\ SendsReplyTo(stepLog', Head(new.batch))
       \* its send has returned and the loop ran to the end of the batch,
       \* or its send has failed and the cycle ends
       \/ /\ AwaitsSend(old.pc)
          /\ new = [pc |-> "idle", batch |-> <<>>]
          /\ checked = rest \/ checked = <<>>
          /\ SendsReplyTo(stepLog', Head(old.batch))

\* the first step of cycle c after receiveMessages returned: the messages
\* checked and the ones still to come are one batch, in one order
FirstStep(c) ==
  LET new     == cycles'[c]
      checked == CheckedMsgs(stepLog')
  IN (cycles[c].pc = "receiving" /\ AwaitsCall(new.pc)) =>
       /\ checked # <<>>
       /\ Head(new.batch) = checked[Len(checked)]
       /\ SendsReplyTo(stepLog', Head(new.batch))

\* C28: within one poll cycle the messages are processed strictly in the
\* returned order: while the dispatch or the reply send of a message is
\* going on the cycle checks no other message, and when the send is over
\* the messages checked next are the following ones of the batch, in order;
\* every reply sent belongs to the message the cycle is on.
C28_ProcessedInOrder ==
  [][\A c \in Cycles : InOrderStep(c) /\ FirstStep(c)]_vars

\* the reply to the first message of a batch of two is being sent and the
\* second message has not been checked yet
C28_Witness ==
  \E c \in Cycles :
    /\ AwaitsSend(cycles[c].pc)
    /\ Len(cycles[c].batch) = 2
    /\ MsgId(cycles[c].batch[2]) \notin Range(processedMessages)
    /\ MsgId(cycles[c].batch[1]) \in Range(processedMessages)
    /\ nAdmitted = 1

\* stepLog holds the events of the step just taken.  A message checked as
\* absent was absent when it was checked, and a message that is dispatched
\* is in the processed-message set, as its newest element, when the step
\* that checked it ends
CheckAndInsert ==
  \A i \in DOMAIN stepLog :
    LET e == stepLog[i]
    IN /\ (e.type = "dedup" /\ e.ok) => ~e.seen
       /\ e.type = "dispatch" =>
            /\ ~e.seen
            /\ i = Len(stepLog)
            /\ processedMessages # <<>>
            /\ processedMessages[Len(processedMessages)] = MsgId(e.msg)
            /\ retainedIds[Len(retainedIds)] = Identity(e.msg)

\* a cycle that finds the identity of its message retained skips it
SkipsRetained ==
  \A i \in DOMAIN stepLog :
    LET e == stepLog[i]
    IN (e.type = "dedup" /\ e.seen) => ~e.ok

\* C29: the dedup check-evict-insert is one step: a message is checked as
\* absent and inserted with no step of any other cycle in between, so with
\* two cycles in progress on messages of one identity the second check finds
\* the identity present and does not dispatch it, and no identity is checked
\* as absent twice while it is retained.
C29_DedupAtomic == CheckAndInsert /\ SkipsRetained

\* one cycle is still handling a message while the other cycle has just
\* skipped a message of the same identity
C29_Witness ==
  \E c \in Cycles :
    /\ AwaitsCall(cycles[c].pc) \/ AwaitsSend(cycles[c].pc)
    /\ \E i \in DOMAIN stepLog :
         /\ stepLog[i].type = "dedup"
         /\ ~stepLog[i].ok
         /\ stepLog[i].seen
         /\ Identity(stepLog[i].msg) = Identity(Head(cycles[c].batch))
    /\ \E d \in Cycles \ {c} : cycles[d].pc = "idle"

\* C31: the dedup key is injective on message identity: a message whose key
\* is held in the processed-message set has the identity (timestamp,
\* sender, group id) the key was recorded for, so no message is skipped as
\* a duplicate of a different message.
C31_KeyInjective ==
  \A e \in LogEvents :
    \A i \in DOMAIN processedMessages :
      (e.type = "dedup" /\ MsgId(e.msg) = processedMessages[i])
        => Identity(e.msg) = retainedIds[i]

-----------------------------------------------------------------------------
(* Properties of the chat socket client (specifications RpcSpec, FairRpcSpec) *)

\* after the timer of a request has fired its entry is gone and the caller
\* has been settled exactly once, with the timeout if no response came first
TimerSettles ==
  rpcLog.type = "timer" =>
    /\ rpcLog.id \notin pendingRpc
    /\ settlements[rpcLog.id] \in {<<"timeout">>, <<"result">>, <<"remote error">>}

\* a response for an id that is not pending changes nothing
LateResponseIsNoOp ==
  (/\ rpcLog'.type = "message"
   /\ rpcLog'.kind = "response"
   /\ rpcLog'.id \notin pendingRpc)
    => UNCHANGED <<pendingRpc, timers, settlements, removals, messageQueue, rpcId>>

\* the timer of a request that is still pending removes its entry and
\* rejects the caller with the timeout
TimerRejects ==
  \A id \in RpcIds :
    (/\ rpcLog'.type = "timer" /\ rpcLog'.id = id
     /\ id \in timers /\ id \notin timers'
     /\ id \in pendingRpc)
      => (id \notin pendingRpc' /\ settlements'[id] = <<"timeout">>)

\* C6: a request that gets no response is rejected with the timeout error
\* when its 30 s timer fires and its entry is removed at that moment; a
\* response for that id that arrives later changes nothing; while the
\* process runs every pending request is eventually removed.
C6_TimeoutSettles ==
  /\ []TimerSettles
  /\ [][TimerRejects]_vars
  /\ [][LateResponseIsNoOp]_vars
  /\ \A id \in RpcIds : (id \in pendingRpc) ~> (id \notin pendingRpc \/ ~alive)

\* a response has been handled for a request that had timed out
C6_Witness ==
  /\ rpcLog.type = "message"
  /\ rpcLog.kind = "response"
  /\ settlements[rpcLog.id] = <<"timeout">>
  /\ rpcLog.id \notin pendingRpc

\* C7: no request stays pending across a connection drop: when the socket
\* has closed, pendingRpc is empty.
C7_CloseRejectsPending == wsState = "closed" => pendingRpc = {}

\* every request is settled at most once and its entry is deleted at most
\* once, and exactly once when its timer has fired
SettledOnce ==
  \A id \in RpcIds :
    /\ Len(settlements[id]) <= 1
    /\ removals[id] = Len(settlements[id])
    /\ id \in pendingRpc => removals[id] = 0
    /\ (id <= rpcId /\ id \notin pendingRpc) => removals[id] = 1
    /\ (id <= rpcId /\ id \notin timers) => id \notin pendingRpc

\* the first settlement of a request stays
SettlementStays ==
  \A id \in RpcIds : settlements[id] # <<>> => settlements'[id] = settlements[id]

\* C8: in every interleaving of response, timer expiry and close each
\* request is settled at most once and its entry removed exactly once; the
\* later of response and timer has no effect.
C8_SettledAtMostOnce == []SettledOnce /\ [][SettlementStays]_vars

\* the timer of a request fired after its response had resolved it, on a
\* connection that had closed in between
C8_Witness ==
  /\ rpcLog.type = "timer"
  /\ settlements[rpcLog.id] = <<"result">>
  /\ wsState # "open"

\* C9: after every close of a connection that had been open, the flag is
\* cleared and a reconnect is under way: the process runs and the 5 s timer
\* is armed.
C9_ReconnectsForever ==
  (everOpen /\ wsState = "closed") => (~isConnected /\ alive /\ reconnectTimers > 0)

\* the messages handed out so far followed by the queued ones
HandedOut == returned \o messageQueue

\* C10: every pushed inbound data message is queued and is returned by
\* exactly one receiveMessages call, in arrival order; a receiveMessages
\* call leaves the queue empty.
C10_QueueDelivery ==
  /\ Len(HandedOut) = Len(arrived)
  /\ \A i \in DOMAIN arrived :
       /\ HandedOut[i].source = arrived[i].source
       /\ HandedOut[i].timestamp = arrived[i].timestamp
       /\ HandedOut[i].isGroup = arrived[i].groupInfo.present
       /\ HandedOut[i].groupId = arrived[i].groupInfo.groupId
  /\ rpcLog.type = "receive" => messageQueue = <<>>

\* one message has been returned by a receiveMessages call and a message
\* pushed after that call is queued
C10_Witness ==
  /\ Len(returned) = 1
  /\ Len(messageQueue) = 1
  /\ returned[1] # messageQueue[1]

\* a response with an error field for a pending request removes the entry
\* and rejects the caller with the remote error
ErrorResponseRejects ==
  \A id \in RpcIds :
    (id \in pendingRpc /\ WsMessage(Response(id, TRUE))) =>
      /\ id \notin pendingRpc'
      /\ removals'[id] = removals[id] + 1
      /\ settlements'[id] = << "remote error" >>

\* a caller that was rejected with the remote error is never resolved
RejectionStays ==
  \A id \in RpcIds :
    "remote error" \in Range(settlements[id]) => settlements'[id] = << "remote error" >>

\* C25: a response that carries an error field and whose id matches a
\* pending request rejects the caller of that request with the remote
\* error, removes the pending entry, and never resolves the caller with a
\* result.
C25_ErrorResponseRejects ==
  /\ [][ErrorResponseRejects]_vars
  /\ [][RejectionStays]_vars

\* the response rejected the caller with the remote error while the timer
\* of the request was still armed
C25_Witness ==
  /\ rpcLog.type = "message"
  /\ rpcLog.kind = "response"
  /\ settlements[rpcLog.id] = << "remote error" >>
  /\ rpcLog.id \notin pendingRpc
  /\ rpcLog.id \in timers

\* a step taken while the connected flag is false creates no pending
\* entry, consumes no request id, starts no timer and writes nothing to the
\* socket; a call made then fails as not connected
NotConnectedLeavesState ==
  ~isConnected =>
    /\ rpcId' = rpcId
    /\ pendingRpc' \subseteq pendingRpc
    /\ timers' \subseteq timers
    /\ rpcLog'.type # "send"
    /\ rpcLog'.type = "notConnected" =>
         UNCHANGED <<wsState, isConnected, reconnectTimers, pendingRpc, timers,
                     settlements, removals, messageQueue>>

\* the id of a successful call is the successor of the last id handed out,
\* and the counter never goes back, whatever happens to the connection
IdsIncrease ==
  /\ rpcId' >= rpcId
  /\ rpcId' # rpcId =>
       /\ isConnected
       /\ rpcId' = rpcId + 1
       /\ rpcLog' = RpcEvent("send", rpcId', "")
       /\ rpcId' \notin pendingRpc /\ rpcId' \in pendingRpc'
       /\ rpcId' \in timers'

\* C37: sendJsonRpc invoked while the connected flag is false fails at once
\* with a not-connected error and leaves the client state unchanged (no
\* pending entry, no request id consumed, no timer, nothing written to the
\* socket); the request ids of successful calls are strictly increasing
\* over the whole life of the client, reconnects included.
C37_NotConnectedFailsCleanly == [][NotConnectedLeavesState /\ IdsIncrease]_vars

\* a call made after the connection closed, while an earlier request is
\* still pending, has failed as not connected
C37_Witness ==
  /\ rpcLog.type = "notConnected"
  /\ wsState = "closed" /\ ~isConnected
  /\ rpcId = 1
  /\ pendingRpc = {1}
  /\ timers = {1}

-----------------------------------------------------------------------------
(* Properties of the command parser (specifications ParserSpec, OverlapSpec,
   FnSpec) *)

ParserEvents == { parserLog[i] : i \in DOMAIN parserLog }

\* the three aliases of an entity
AliasesOf(entity) ==
  { ToLowerCase(entity.entity_id), ToLowerCase(DisplayName(entity)),
    NormalizedId(entity.entity_id) }

\* C13: after every refreshCache the cache holds exactly the aliases of the
\* entities of the list that refresh got: no alias of an earlier refresh
\* is left.
C13_CacheIsLastRefresh ==
  \A e \in ParserEvents :
    e.type = "refresh" =>
      MapKeys(entityCache) = UNION { AliasesOf(e.states[k]) : k \in DOMAIN e.states }

\* C14: a command that is executed after cacheExpiry has elapsed since the
\* cache was built resolves its entity on a cache rebuilt for it: no name
\* is looked up in a cache older than cacheExpiry.
C14_RebuiltWhenStale ==
  \A e \in ParserEvents : e.type = "findEntity" => ~stale

\* every entity of the list a refresh got is in the cache under its three
\* aliases, each alias leads to an entity of that list, and entering the
\* same list once more changes nothing
RefreshIsWhole ==
  \A e \in ParserEvents :
    e.type = "refresh" =>
      /\ \A k \in DOMAIN e.states :
           \A a \in AliasesOf(e.states[k]) :
             /\ MapHas(entityCache, a)
             /\ \E n \in DOMAIN e.states : MapGet(entityCache, a) = e.states[n]
      /\ refreshCacheLoop(entityCache, e.states) = entityCache

\* the cache changes only in the step that runs the loop of refreshCache
CacheChangesInRefreshOnly ==
  entityCache' # entityCache
    => \E i \in DOMAIN parserLog' : parserLog'[i].type = "refresh"

\* C15: refreshCache is idempotent and atomic towards readers: the cache
\* changes in one step from what it was to what it was with the whole list
\* entered, so that a findEntity call of any invocation, overlapping ones
\* included, finds every entity of the last list under all its aliases; and
\* entering the same list twice leaves the cache entering it once leaves.
C15_RefreshAtomicIdempotent ==
  /\ []RefreshIsWhole
  /\ [][CacheChangesInRefreshOnly]_vars

\* an invocation has looked a name up right after its own refresh, which
\* ran on the cache the refresh of an overlapping invocation had built
\* from another list
C15_Witness ==
  /\ \E e \in ParserEvents :
       /\ e.type = "refresh"
       /\ MapKeys(entityCache) # UNION { AliasesOf(e.states[k]) : k \in DOMAIN e.states }
  /\ \E e \in ParserEvents : e.type = "findEntity" /\ e.entity # NoEntity

\* the entries of the cache whose alias is the name, and those whose alias
\* contains the name or is contained in it
ExactHits(name) == { i \in DOMAIN entityCache : entityCache[i].key = name }

PartialHits(name) ==
  { i \in DOMAIN entityCache :
      \/ Includes(entityCache[i].key, name)
      \/ Includes(name, entityCache[i].key) }

\* C16: findEntity(name) returns the record stored under the lower-cased,
\* trimmed name if that is an alias; otherwise the record of the first
\* alias, in insertion order, that contains the name or is contained in
\* it; otherwise none.  Two names that differ only in letter case resolve to
\* the same record.
C16_FindEntity ==
  fnResult.fn = "findEntity" =>
    LET name == Trim(ToLowerCase(fnArg)) IN
    /\ ExactHits(name) # {} =>
         \E i \in ExactHits(name) : fnResult.entity = entityCache[i].value
    /\ (ExactHits(name) = {} /\ PartialHits(name) # {}) =>
         \E i \in PartialHits(name) :
           /\ \A j \in PartialHits(name) : i <= j
           /\ fnResult.entity = entityCache[i].value
    /\ PartialHits(name) = {} => fnResult.entity = NoEntity
    /\ \A other \in FnTexts :
         ToLowerCase(other) = ToLowerCase(fnArg)
           => findEntity(entityCache, other) = fnResult.entity

\* a name with capital letters that is no alias has been resolved by a
\* partial match that is not the first entry of the cache
C16_Witness ==
  /\ fnResult.fn = "findEntity"
  /\ fnArg # ToLowerCase(fnArg)
  /\ ExactHits(Trim(ToLowerCase(fnArg))) = {}
  /\ fnResult.entity # NoEntity
  /\ fnResult.entity # entityCache[1].value

ReturnEvents == { e \in ParserEvents : e.type = "return" }

\* the service calls among the requests of an invocation
ServiceCalls(requests) == SelectSeq(requests, LAMBDA r : r.kind = "service")

IsErrorReply(reply) == StartsWith(reply, "[x] ")

EndsByReturning ==
  \A c \in Cycles :
    (calls[c].pc # "idle" /\ calls'[c].pc = "idle")
      => \E i \in DOMAIN parserLog' :
           parserLog'[i].type = "return" /\ parserLog'[i].text = calls[c].text

\* the reply is a non-empty string; it is error-prefixed when the backend
\* call of the handler failed; a failed refresh alone does not make it so
RepliesAreRendered ==
  \A e \in ReturnEvents :
    /\ e.reply # ""
    /\ e.callFailed => IsErrorReply(e.reply)
    /\ (e.refreshFailed /\ e.rule \in {"help", "unknown"}) => ~IsErrorReply(e.reply)

RuleOrder ==
  << "help", "status", "statusArea", "temperature", "locks", "listLights",
     "listSwitches", "listSensors", "listArea", "turnOn", "turnOff", "toggle",
     "dim", "isOn", "isLocked", "unknown" >>

\* the pattern of a rule matches the command
Matches(rule, cmd) ==
  CASE rule = "help"         -> cmd \in {"help", "?"}
    [] rule = "status"       -> cmd = "status"
    [] rule = "statusArea"   -> StartsWith(cmd, "status ")
    [] rule = "temperature"  -> cmd \in {"temperature", "temp"}
    [] rule = "locks"        -> cmd = "locks"
    [] rule = "listLights"   -> cmd \in {"list lights", "lights"}
    [] rule = "listSwitches" -> cmd \in {"list switches", "switches"}
    [] rule = "listSensors"  -> cmd = "list sensors"
    [] rule = "listArea"     -> StartsWith(cmd, "list ")
    [] rule = "turnOn"       -> StartsWith(cmd, "turn on ")
    [] rule = "turnOff"      -> StartsWith(cmd, "turn off ")
    [] rule = "toggle"       -> StartsWith(cmd, "toggle ")
    [] rule = "dim"          -> StartsWith(cmd, "dim ") /\ DimMatch(cmd).matched
    [] rule = "isOn"         -> StartsWith(cmd, "is ") /\ Includes(cmd, " on")
    [] rule = "isLocked"     -> StartsWith(cmd, "is ") /\ Includes(cmd, " locked")
    [] rule = "unknown"      -> TRUE

\* C18: execute takes the first rule, in the precedence order of the
\* grammar, whose pattern matches the lower-cased, trimmed text; "status"
\* takes the full-status rule and "list lights" the list-lights rule.
C18_FirstMatchWins ==
  fnResult.fn = "execute" =>
    LET cmd == Trim(ToLowerCase(fnArg)) IN
    /\ \E i \in DOMAIN RuleOrder :
         /\ Matches(RuleOrder[i], cmd)
         /\ \A j \in 1 .. i - 1 : ~Matches(RuleOrder[j], cmd)
         /\ fnResult.branch.rule = RuleOrder[i]
    /\ cmd = "status" => fnResult.branch.rule = "status"
    /\ cmd = "list lights" => fnResult.branch.rule = "listLights"

\* "List Lights", which the list-<area> pattern matches too, has taken the
\* list-lights rule
C18_Witness ==
  /\ fnResult.fn = "execute"
  /\ fnArg = "List Lights"
  /\ Matches("listArea", Trim(ToLowerCase(fnArg)))
  /\ fnResult.branch.rule = "listLights"

TurnOnReturns == { e \in ReturnEvents : e.rule = "turnOn" }

\* the requests of a turn-on whose name resolved: one turn-on service call
\* for the canonical id of the entity
OneTurnOnCall(e) ==
  /\ Len(ServiceCalls(e.requests)) = 1
  /\ ServiceCalls(e.requests)[1].service = "homeassistant.turn_on"
  /\ ServiceCalls(e.requests)[1].entity_id = e.entity.entity_id

TurnOnNotFound(e) ==
  /\ ServiceCalls(e.requests) = <<>>
  /\ StartsWith(e.reply, "[?] Entity not found: ")

\* C19 as stated: when the name of `turn on <name>` resolves, exactly one
\* turn-on service call is issued for the entity's id and the reply is
\* "[ok] Turned on: <friendly name>"; when it does not resolve, no service
\* call is issued and the reply is a "not found" message.
C19_TurnOnReply ==
  \A e \in TurnOnReturns :
    IF e.entity # NoEntity
    THEN OneTurnOnCall(e) /\ e.reply = "[ok] Turned on: " \o DisplayName(e.entity)
    ELSE TurnOnNotFound(e)

\* C19 (amended): when the name resolves, exactly one turn-on service call
\* is issued for the entity's id; the reply is "[ok] Turned on: <friendly
\* name>" when that call succeeds and "[x] Failed to turn on <friendly
\* name>: <error>" when it fails; when the name does not resolve, no service
\* call is issued and the reply is a "not found" message.
C19_TurnOnReplyOnSuccess ==
  \A e \in TurnOnReturns :
    IF e.entity # NoEntity
    THEN /\ OneTurnOnCall(e)
         /\ ~e.callFailed => e.reply = "[ok] Turned on: " \o DisplayName(e.entity)
         /\ e.callFailed =>
              e.reply = "[x] Failed to turn on " \o DisplayName(e.entity)
                          \o ": " \o ErrMessage
    ELSE TurnOnNotFound(e)

\* "Turn on Kitchen Light" has turned the kitchen light on
C19_Witness ==
  \E e \in TurnOnReturns :
    /\ e.entity.entity_id = "light.kitchen"
    /\ ~e.callFailed
    /\ e.reply = "[ok] Turned on: Kitchen Light"
    /\ \E i \in DOMAIN haEntities :
         haEntities[i].entity_id = "light.kitchen" /\ haEntities[i].state = "on"

EndsWith(s, p) == Len(s) >= Len(p) /\ SubSeq(s, Len(s) - Len(p) + 1, Len(s)) = p

\* C20: the reply to `is <name> on?` / `is <name> locked?` reports the state
\* the backend holds for the resolved entity at the time of the query.
C20_ReportsCurrentState ==
  \A e \in ReturnEvents :
    (e.rule \in {"isOn", "isLocked"} /\ e.entity # NoEntity) =>
      \A i \in DOMAIN haEntities :
        haEntities[i].entity_id = e.entity.entity_id
          => EndsWith(e.reply, "* Status: " \o haEntities[i].state)

\* the command without a trailing per cent sign
WithoutPercent(cmd) ==
  IF EndsWith(cmd, "%") THEN SubSeq(cmd, 1, Len(cmd) - 1) ELSE cmd

DimReturns == { e \in ReturnEvents : e.rule = "dim" }

\* C21: for `dim <name> to <N>` with a name that resolves to a light, one
\* brightness call is made, for the canonical id of that light and with
\* exactly the integer N written in the command: 150 is passed as 150, 0
\* as 0.
C21_BrightnessVerbatim ==
  \A e \in DimReturns :
    (e.entity # NoEntity /\ StartsWith(e.entity.entity_id, "light.")) =>
      /\ Len(ServiceCalls(e.requests)) = 1
      /\ LET call == ServiceCalls(e.requests)[1]
         IN /\ call.service = "light.turn_on"
            /\ call.entity_id = e.entity.entity_id
            /\ call.level >= 0
            /\ EndsWith(WithoutPercent(CommandOf(e.text)), " to " \o ToString(call.level))
            /\ e.text = "dim kitchen to 150%" => call.level = 150
            /\ e.text = "dim kitchen to 0" => call.level = 0

\* "dim kitchen to 150%" has set the kitchen light to 150
C21_Witness ==
  \E e \in DimReturns :
    /\ e.text = "dim kitchen to 150%"
    /\ e.entity.entity_id = "light.kitchen"
    /\ ~e.callFailed
    /\ ServiceCalls(e.requests) = << Service("light.turn_on", "light.kitchen", 150) >>
    /\ e.reply = "[bulb] Set " \o DisplayName(e.entity) \o " to 150% brightness"

-----------------------------------------------------------------------------
(* Properties of the event subscription (specification EventSpec) *)

\* the state_changed event of a lock that goes from locked to unlocked
IsUnlock(frame) ==
  /\ CallsBack(frame)
  /\ StartsWith(frame.event.data.entity_id, "lock.")
  /\ frame.event.data.old_state.state = "locked"
  /\ frame.event.data.new_state.state = "unlocked"

\* the state_changed event of a motion entity that goes from off to on
IsMotion(frame) ==
  /\ CallsBack(frame)
  /\ Includes(frame.event.data.entity_id, "motion")
  /\ frame.event.data.old_state.state = "off"
  /\ frame.event.data.new_state.state = "on"

\* C22: when the event stream delivers a state_changed event of a lock that
\* goes from locked to unlocked, or of a motion entity that goes from off to
\* on, and a broadcast group is configured, one notification send to that
\* group is attempted.
C22_NotifiesBroadcastGroup ==
  (haGroupId # "" /\ (IsUnlock(eventLog.frame) \/ IsMotion(eventLog.frame))) =>
    /\ Len(eventLog.sends) = 1
    /\ eventLog.sends[1].target = [type |-> "group", id |-> haGroupId]

-----------------------------------------------------------------------------
(* Properties of the polling transport (specification FnSpec) *)

\* the receive GET was answered with a non-success status and no body
NonSuccessNoBody(response) ==
  response.status # 0 /\ ~AxiosResolves(response) /\ response.body = "none"

\* C24 as stated: for every non-success status answered without a body,
\* receiveMessages returns an empty list and raises no error.
C24_NonSuccessIsNoMessages ==
  (fnResult.fn = "receiveMessagesRest" /\ NonSuccessNoBody(fnResult.response)) =>
    (~fnResult.outcome.threw /\ fnResult.outcome.messages = <<>>)

\* C24 (amended): when the receive GET is answered with status 400,
\* receiveMessages returns an empty list and raises no error; every other
\* non-success status, and a request that got no response, is raised to the
\* caller.
C24_BadRequestIsNoMessages ==
  (fnResult.fn = "receiveMessagesRest" /\ ~AxiosResolves(fnResult.response)) =>
    IF fnResult.response.status = 400
    THEN ~fnResult.outcome.threw /\ fnResult.outcome.messages = <<>>
    ELSE fnResult.outcome.threw

\* the GET was answered with status 400 and no body, and receiveMessages
\* returned the empty list
C24_Witness ==
  /\ fnResult.fn = "receiveMessagesRest"
  /\ fnResult.response.status = 400
  /\ fnResult.response.body = "none"
  /\ fnResult.outcome = RestOutcome(FALSE, <<>>)

-----------------------------------------------------------------------------
(* Properties of the bridge loop over the chat socket client (specification
   SocketSpec) *)

IsGroupEvent(e) == e.type \in {"listGroups", "createGroup"}

\* In the step that runs a group operation: listGroups returns the empty
\* list and createGroup throws the unsupported error; the reply is sent
\* next; the only request registered and written to the socket is the
\* 'send' of that reply (none when the socket is not connected); the
\* process runs on and the cycle waits for the send or has ended.
GroupOpsStayLocal ==
  \A i \in DOMAIN stepLog' :
    IsGroupEvent(stepLog'[i]) =>
      LET e == stepLog'[i] IN
      /\ e.type = "listGroups" => (e.ok /\ e.groups = <<>>)
      /\ e.type = "createGroup" => (~e.ok /\ e.error = "Group creation requires REST mode")
      /\ i < Len(stepLog')
      /\ stepLog'[i + 1].type = "send"
      /\ stepLog'[i + 1].msg = e.msg
      /\ \A j \in DOMAIN stepLog' : IsGroupEvent(stepLog'[j]) => j = i
      /\ IF isConnected
         THEN /\ rpcId' = rpcId + 1
              /\ pendingRpc' = pendingRpc \cup {rpcId'}
              /\ rpcLog' = RpcEvent("send", rpcId', "send")
              /\ cycles'[1].pc = "sendFinal"
         ELSE /\ UNCHANGED <<rpcId, pendingRpc, timers>>
              /\ cycles'[1].pc = "idle"
      /\ alive'

\* C26: in json-rpc mode the group operations never go over the wire:
\* listGroups returns an empty list and createGroup fails with the
\* unsupported error, and neither registers a pending request nor writes
\* one to the socket; a `create group` command yields the failure reply and
\* the poll loop goes on.
C26_GroupOpsUnsupportedOnSocket ==
  [][cycles' # cycles => GroupOpsStayLocal]_vars

\* "create group den" has been answered with the failure reply, whose
\* 'send' request is the only one pending
C26_Witness ==
  /\ \E i \in DOMAIN stepLog :
       /\ stepLog[i].type = "createGroup"
       /\ ~stepLog[i].ok
       /\ stepLog[i + 1].type = "send"
  /\ cycles[1].pc = "sendFinal"
  /\ pendingRpc = {rpcId}
  /\ rpcLog = RpcEvent("send", rpcId, "send")

\* the group id is present exactly for a Group origin, and the reply target
\* is the group for a Group origin and the sender otherwise
WellFormedMessage(m) ==
  /\ (m.groupId # "") <=> m.isGroup
  /\ m.replyTo = IF m.isGroup THEN [type |-> "group", id |-> m.groupId]
                              ELSE [type |-> "individual", id |-> m.source]

\* C27: for every raw envelope the polling variant and the socket variant
\* produce the same normalized message or both drop it (a receipt, a
\* message of the bot itself); in the normalized message the group id is
\* present if and only if the origin is Group, and the reply target is the
\* group for Group origin and the sender otherwise.
C27_VariantsAgree ==
  fnResult.fn = "normalize" =>
    LET envelope == fnResult.response.envelopes[1]
        polled   == fnResult.outcome.messages
        pushed   == fnResult.queue
    IN /\ ~fnResult.outcome.threw
       /\ polled = pushed
       /\ Len(pushed) <= 1
       /\ (pushed = <<>>) <=> (~envelope.dataMessage \/ envelope.source = signalNumber)
       /\ \A i \in DOMAIN pushed :
            /\ WellFormedMessage(pushed[i])
            /\ pushed[i].isGroup = envelope.groupInfo.present
            /\ pushed[i].source = envelope.source
            /\ pushed[i].timestamp = envelope.timestamp

\* a group message with a padded text came out of both variants as the same
\* message, addressed to its group
C27_Witness ==
  /\ fnResult.fn = "normalize"
  /\ Len(fnResult.queue) = 1
  /\ fnResult.queue[1].isGroup
  /\ fnResult.queue[1].message = "Status"
  /\ fnResult.queue[1].replyTo = [type |-> "group", id |-> "abc="]
  /\ fnResult.outcome.messages = fnResult.queue

\* the brightness calls among the requests of an invocation
BrightnessCalls(requests, b) ==
  IF b.rule = "dim" THEN ServiceCalls(requests) ELSE <<>>

C30_NotFoundReached ==
  \E e \in DimReturns :
    /\ e.text = "dim garage to 5"
    /\ e.entity = NoEntity
    /\ ServiceCalls(e.requests) = <<>>

-----------------------------------------------------------------------------
(* Properties of the loop over whole streams (specification StreamSpec) *)

\* C32: messages of senders that are not on the allow-list have no influence
\* on the handling of other messages: a run over a stream and a run over
\* the same stream without its unauthorized Individual messages hand the
\* same messages to the command handlers, in the same order.
C32_UnauthorizedNoInfluence ==
  fnResult.fn = "pollAll" => fnResult.dispatched = fnResult.dispatchedAlone

-----------------------------------------------------------------------------
(* Properties of the connections (specification ConnSpec) *)

\* a step in which the chat socket client starts a connection attempt
SignalConnects == wsState' = "connecting" /\ wsState # "connecting"

\* a step in which the backend client starts a connection attempt
HaConnects == Len(haStream'.sockets) > Len(haStream.sockets)

\* C33: after disconnect() has been called on the chat socket client or on
\* the backend client, that client never opens a new connection and no
\* close schedules a reconnect for it.
C33_NoReconnectAfterDisconnect ==
  [][/\ disconnected.signal =>
          ~SignalConnects /\ reconnectTimers' <= reconnectTimers
     /\ disconnected.ha =>
          ~HaConnects /\ haStream'.timers <= haStream.timers]_vars

FromOwnAccount(messages) ==
  \E i \in DOMAIN messages : messages[i].source = signalNumber

\* C34: an envelope whose source is the bot's own account is never turned
\* into an inbound message in either transport variant: it is not queued by
\* the socket variant, not returned by receiveMessages, not recorded in the
\* processed-message set and not dispatched.
C34_OwnMessagesDropped ==
  fnResult.fn = "pollAll" =>
    /\ ~FromOwnAccount(fnResult.queue)
    /\ ~FromOwnAccount(fnResult.stream)
    /\ \A i \in DOMAIN fnResult.processed : fnResult.processed[i][2] # signalNumber
    /\ ~FromOwnAccount(fnResult.dispatched)
    /\ Len(fnResult.stream) =
         Cardinality({ i \in DOMAIN fnResult.envelopes :
                         fnResult.envelopes[i].source # signalNumber })

\* a stream with a command of the bot's own account between two commands of
\* others went through both variants and the loop
C34_Witness ==
  /\ fnResult.fn = "pollAll"
  /\ Len(fnResult.envelopes) = 3
  /\ fnResult.envelopes[2].source = signalNumber
  /\ Len(fnResult.stream) = 2
  /\ Len(fnResult.queue) = 2
  /\ Len(fnResult.dispatched) = 2

-----------------------------------------------------------------------------
(* Properties of the entity cache (specification ResolveSpec) *)

\* C35: after a cache refresh over any entity list returned by the backend,
\* resolving the canonical id of any entity of that list, in any letter
\* case, returns the record of that same entity, whatever the friendly
\* names and ids of the other entities are.
C35_IdResolvesToOwnRecord ==
  fnResult.fn = "resolve" => fnResult.entity = fnResult.target

LiveSockets ==
  { i \in DOMAIN haStream.sockets : haStream.sockets[i].state \in {"connecting", "open"} }

ClosedSockets ==
  { i \in DOMAIN haStream.sockets : haStream.sockets[i].state = "closed" }

\* on every socket the auth frame is the first frame written, when the
\* socket opens, and the subscription follows only once the backend has
\* answered auth_ok
AuthFirst ==
  \A i \in DOMAIN haStream.sockets :
    LET socket == haStream.sockets[i]
    IN /\ socket.sent \in { <<>>, <<"auth">>, <<"auth", "subscribe_events">> }
       /\ socket.state = "connecting" => socket.sent = <<>>
       /\ socket.state = "open" => socket.sent # <<>>
       /\ "subscribe_events" \in Range(socket.sent) => socket.authOk

\* every closed socket has armed a timer that is still armed or has opened
\* a new socket
CloseSchedulesAttempt ==
  haStream.sockets # <<>> =>
    Cardinality(ClosedSockets) = haStream.timers + Len(haStream.sockets) - 1

\* a state_changed event invokes the callback once, on the one live socket
OncePerEvent ==
  /\ haStream.step.callbacks = IF haStream.step.type = "state_changed" THEN 1 ELSE 0
  /\ haStream.step.type = "state_changed" => LiveSockets = {haStream.step.socket}

\* C36: on every event-stream connection, reconnections included, the
\* client sends the auth frame first and the state_changed subscription only
\* after auth_ok; every close is followed, while the process runs, by a new
\* connection attempt once the 5 s timer fires; at most one connection is
\* live at a time, and each state_changed event invokes the handler once.
C36_EventStreamProtocol ==
  /\ [](AuthFirst /\ CloseSchedulesAttempt /\ OncePerEvent
        /\ Cardinality(LiveSockets) <= 1)
  /\ \A i \in SocketIds :
       (i \in ClosedSockets) ~> (Len(haStream.sockets) > i \/ ~alive)

\* after a close and a reconnection the second socket has authenticated,
\* subscribed and delivered a state_changed event
C36_Witness ==
  /\ Len(haStream.sockets) = 2
  /\ haStream.sockets[1].state = "closed"
  /\ haStream.sockets[1].sent = <<"auth", "subscribe_events">>
  /\ haStream.sockets[2].sent = <<"auth", "subscribe_events">>
  /\ haStream.step = StreamStep("state_changed", 2, 1)

====
